---- MODULE Spec2Model ----
(***************************************************************************)
(* A model of the orchestration and resilience layer of                    *)
(* mimicking-human-beings:                                                 *)
(*   - mcp_server/utils.py       CircuitBreaker                            *)
(*   - mcp_server/middleware.py  RateLimitMiddleware                       *)
(*   - mcp_client/server.py      Server (one tool-server session)          *)
(*   - mcp_client/mcp_client.py  MCPClient (registry and conversation loop)*)
(* All coroutines run on one asyncio event loop: the code between two      *)
(* awaits is one atomic step, and every await is a point where another     *)
(* coroutine may run and the clock may advance.                            *)
(***************************************************************************)
EXTENDS Integers, Sequences, FiniteSets, TLC

VARIABLES
    \* ---- time.time() ----
    now,
    \* ---- CircuitBreaker (utils.py) ----
    cb_state,           \* self.state: "closed" | "open" | "half-open"
    failure_count,      \* self.failure_count
    open_until,         \* self.open_until
    failure_threshold,  \* self.failure_threshold (set by __init__, never written again)
    reset_timeout,      \* self.reset_timeout     (set by __init__, never written again)
    call_pc,            \* per caller: "idle" | "awaiting" (suspended at line 60)
    current_time,       \* per caller: the local current_time of its latest call (line 48)
    outcome,            \* per caller: how its latest call ended
    cooldown_from,      \* history: clock at the latest HalfOpen failure, -1 when none / closed since
    \* ---- RateLimitMiddleware (middleware.py) ----
    calls_per_minute,   \* self.calls_per_minute (set by __init__, never written again)
    request_timestamps, \* self.request_timestamps: a dict, here a function on the ips present
    rl_last,            \* the latest request and the response it got
    reqlog,             \* history: every request so far, <<ip, time, admitted>>
    \* ---- Server (server.py), one entry per configured server ----
    session,            \* self.session: 0 for None, else the id of the ClientSession object
    sse_context,        \* self.sse_context: 0 for None, else the id of the sse_client context
    capabilities,       \* self.capabilities is set
    cleanup_lock,       \* self._cleanup_lock: 0 when free, else the task holding it
    sse_made,           \* how many sse_client contexts initialize() has created (the id source)
    sess_made,          \* how many ClientSession objects initialize() has created (the id source)
    sess_exits,         \* history: per session object, the number of __aexit__ calls on it
    sse_exits,          \* history: per sse context, the number of __aexit__ calls on it
    \* ---- the coroutines operating on the servers ----
    tpc,                \* per task: where it is suspended, "idle" when in no call
    tsrv,               \* per task: the server of its running call ("" when idle)
    tfrom,              \* per task: the call it is in: "cleanup", or "initialize" (whose failure runs cleanup)
    terr,               \* per task: a sub-release of its running cleanup() has raised (and was logged)
    last_call,          \* the call that ended in the latest step, if one did: its operation and outcome
    \* ---- MCPClient (mcp_client.py) ----
    tool_server_map,    \* self.tool_server_map: a dict, here a function on the tool names present
    run,                \* per run (the calls of one coroutine on the client): its position and locals
    result,             \* what the call that returned in the latest step gave back, if one did
    ops,                \* how many calls of client methods have been started
    model_calls         \* how many calls of invoke_model have been made

cbVars == <<cb_state, failure_count, open_until, failure_threshold, reset_timeout,
            call_pc, current_time, outcome, cooldown_from>>

rlVars == <<calls_per_minute, request_timestamps, rl_last, reqlog>>

srvVars == <<session, sse_context, capabilities, cleanup_lock, sse_made, sess_made,
             sess_exits, sse_exits>>

taskVars == <<tpc, tsrv, tfrom, terr, last_call>>

clientVars == <<tool_server_map, run, result, ops, model_calls>>

vars == <<now, cbVars, rlVars, srvVars, taskVars, clientVars>>

----------------------------------------------------------------------------
(* Bounds of the circuit-breaker model *)
MaxTime == 4
MaxThreshold == 2
MaxResetTimeout == 2
MaxFailures == 3
NumCallers == 2

Callers == 1..NumCallers

----------------------------------------------------------------------------
(* CircuitBreaker *)

FailFast_Reversed(st, t, until) == st = "open" /\ t > until

\* utils.py:51-52  the fail-fast test
FailFast(st, t, until) == st = "open" /\ t < until

StateOnEntry_Stays(st) == st

\* utils.py:51-57  the state a call that is not failing fast goes on with
StateOnEntry(st) == IF st = "open" THEN "half-open" ELSE st

ClosesOnSuccess_FromOpen(st) == st = "open"
ClosesOnSuccess_Always(st) == TRUE

\* utils.py:63  success closes the circuit only from half-open
ClosesOnSuccess(st) == st = "half-open"

CountAfterFailure_Twice(c) == c + 2

\* utils.py:72  self.failure_count += 1
CountAfterFailure(c) == c + 1

ThresholdReached_Strict(c, th) == c > th

\* utils.py:76  the threshold test
ThresholdReached(c, th) == c >= th

\* utils.py:79  self.open_until = current_time + self.reset_timeout
Deadline(t, rt) == t + rt

InFlight == {p \in Callers : call_pc[p] = "awaiting"}

\* CircuitBreaker.__init__, lines 26-30
CBInit ==
    /\ cb_state = "closed"
    /\ failure_count = 0
    /\ open_until = 0
    /\ failure_threshold \in 1..MaxThreshold
    /\ reset_timeout \in 1..MaxResetTimeout
    /\ call_pc = [p \in Callers |-> "idle"]
    /\ current_time = [p \in Callers |-> 0]
    /\ outcome = [p \in Callers |-> "none"]
    /\ cooldown_from = -1

\* time passes (also while a wrapped operation is awaited)
Tick ==
    /\ now < MaxTime
    /\ now' = now + 1
    /\ UNCHANGED <<cbVars, rlVars, srvVars, taskVars, clientVars>>

\* call(), lines 48-60: read the clock, fail fast or go on to invoke func
CallStart(p) ==
    /\ call_pc[p] = "idle"
    /\ failure_count + Cardinality(InFlight) < MaxFailures
    /\ current_time' = [current_time EXCEPT ![p] = now]
    /\ IF FailFast(cb_state, now, open_until)
       THEN /\ outcome' = [outcome EXCEPT ![p] = "circuit_open"]
            /\ UNCHANGED <<cb_state, call_pc>>
       ELSE /\ cb_state' = StateOnEntry(cb_state)
            /\ call_pc' = [call_pc EXCEPT ![p] = "awaiting"]
            /\ outcome' = [outcome EXCEPT ![p] = "none"]
    /\ UNCHANGED <<now, failure_count, open_until, failure_threshold, reset_timeout,
                   cooldown_from, rlVars, srvVars, taskVars, clientVars>>

\* call(), lines 60-68: func returned
CallSucceed(p) ==
    /\ call_pc[p] = "awaiting"
    /\ IF ClosesOnSuccess(cb_state)
       THEN /\ cb_state' = "closed"
            /\ failure_count' = 0
            /\ cooldown_from' = -1
       ELSE UNCHANGED <<cb_state, failure_count, cooldown_from>>
    /\ call_pc' = [call_pc EXCEPT ![p] = "idle"]
    /\ outcome' = [outcome EXCEPT ![p] = "result"]
    /\ UNCHANGED <<now, open_until, failure_threshold, reset_timeout, current_time,
                   rlVars, srvVars, taskVars, clientVars>>

\* call(), lines 70-81: func raised
CallFail(p) ==
    /\ call_pc[p] = "awaiting"
    /\ failure_count' = CountAfterFailure(failure_count)
    /\ IF ThresholdReached(failure_count', failure_threshold)
       THEN /\ cb_state' = "open"
            /\ open_until' = Deadline(current_time[p], reset_timeout)
       ELSE UNCHANGED <<cb_state, open_until>>
    /\ cooldown_from' = IF cb_state = "half-open" THEN now ELSE cooldown_from
    /\ call_pc' = [call_pc EXCEPT ![p] = "idle"]
    /\ outcome' = [outcome EXCEPT ![p] = "error"]
    /\ UNCHANGED <<now, failure_threshold, reset_timeout, current_time, rlVars,
                   srvVars, taskVars, clientVars>>

----------------------------------------------------------------------------
(* RateLimitMiddleware *)

\* Bounds of the rate-limiter model
MaxLimit == 2
MaxRequests == 4
ClockStep == 20
MaxTimeRL == 80

\* middleware.py:45  the hard-coded window
Window == 60

Clients == {"10.0.0.1", "10.0.0.2"}

\* what call_next may answer
DownstreamStatuses == {200, 500}

NoRequest == [ip |-> "", status |-> 0, body |-> "", forwarded |-> FALSE]

\* middleware.py:45  a timestamp that survives the cleaning
Fresh(ts, t) == ts > t - Window

\* middleware.py:44-47  clean old timestamps, for every ip of the dict
Pruned(m, t) == [ip \in DOMAIN m |-> SelectSeq(m[ip], LAMBDA ts : Fresh(ts, t))]

NonEmpty_Keeps(m) == m

\* middleware.py:50-53  remove empty entries
NonEmpty(m) == [ip \in {i \in DOMAIN m : m[i] # <<>>} |-> m[ip]]

OverLimit_Strict(m, ip, limit) == ip \in DOMAIN m /\ Len(m[ip]) > limit

\* middleware.py:56-58  the test that rejects: only an ip present in the dict is tested
OverLimit(m, ip, limit) == ip \in DOMAIN m /\ Len(m[ip]) >= limit

MapAfterReject_Records(m, ip, t) == [m EXCEPT ![ip] = Append(@, t)]

\* middleware.py:59-63  the rejecting branch returns before anything is recorded
MapAfterReject(m, ip, t) == m

\* middleware.py:64-66  record the request
MapAfterAdmit(m, ip, t) ==
    IF ip \in DOMAIN m
    THEN [m EXCEPT ![ip] = Append(@, t)]
    ELSE [i \in DOMAIN m \cup {ip} |-> IF i = ip THEN <<t>> ELSE m[i]]

\* middleware.py:60-63  JSONResponse({"error": "Rate limit exceeded"}, status_code=429)
RejectResponse(ip) ==
    [ip |-> ip, status |-> 429, body |-> "{\"error\": \"Rate limit exceeded\"}",
     forwarded |-> FALSE]

\* middleware.py:68  the response is the one call_next returns
ForwardResponse(ip, st) ==
    [ip |-> ip, status |-> st, body |-> "downstream", forwarded |-> TRUE]

\* RateLimitMiddleware.__init__, lines 26-27
RLInit ==
    /\ calls_per_minute \in 0..MaxLimit
    /\ request_timestamps = <<>>
    /\ rl_last = NoRequest
    /\ reqlog = <<>>

RLTick ==
    /\ now + ClockStep <= MaxTimeRL
    /\ now' = now + ClockStep
    /\ UNCHANGED <<cbVars, rlVars, srvVars, taskVars, clientVars>>

\* dispatch(), lines 40-68
Dispatch(ip) ==
    /\ Len(reqlog) < MaxRequests
    /\ LET cleaned == NonEmpty(Pruned(request_timestamps, now))
       IN  IF OverLimit(cleaned, ip, calls_per_minute)
           THEN /\ request_timestamps' = MapAfterReject(cleaned, ip, now)
                /\ rl_last' = RejectResponse(ip)
                /\ reqlog' = Append(reqlog, <<ip, now, FALSE>>)
           ELSE /\ request_timestamps' = MapAfterAdmit(cleaned, ip, now)
                /\ \E st \in DownstreamStatuses : rl_last' = ForwardResponse(ip, st)
                /\ reqlog' = Append(reqlog, <<ip, now, TRUE>>)
    /\ UNCHANGED <<now, calls_per_minute, cbVars, srvVars, taskVars, clientVars>>

RLNext ==
    \/ RLTick
    \/ \E ip \in Clients : Dispatch(ip)

----------------------------------------------------------------------------
(* Server: the session to one tool server *)

\* Bounds of the session model
NumTasks == 2
MaxInits == 1

\* mcp_client.py:31-34  the default server_configs
Servers == {"url-fetcher", "random-web"}
Tasks == 1..NumTasks
\* the objects a server may come to hold: one per initialize() of a task or of a pass
ObjIds == 1..(MaxInits + 2)

LockFree_Always(l) == TRUE

\* server.py:110  async with self._cleanup_lock: the body runs only once the lock is free
LockFree(l) == l = 0

CleanupOutcome_Propagates(err) == IF err THEN "raised" ELSE "returned"

\* server.py:113-128  every exception of a sub-release is caught and logged
CleanupOutcome(err) == "returned"

\* the suspension points of initialize() (lines 43, 45, 46) and of cleanup() (110, 114, 122)
InitPcs == {"sse_enter", "sess_enter", "handshake"}
CleanupPcs == {"lock_wait", "sess_exit", "sse_exit"}

\* server.py:44-46  Ready: a session is stored and its handshake has recorded capabilities
Ready(s) == session[s] # 0 /\ capabilities[s]

\* how many initialize() calls have been made, on all servers together
InitsMade == sse_made["url-fetcher"] + sse_made["random-web"]

NoCall == [op |-> "", outcome |-> ""]

\* Server.__init__, lines 26-31
SrvInit ==
    /\ session = [s \in Servers |-> 0]
    /\ sse_context = [s \in Servers |-> 0]
    /\ capabilities = [s \in Servers |-> FALSE]
    /\ cleanup_lock = [s \in Servers |-> 0]
    /\ sse_made = [s \in Servers |-> 0]
    /\ sess_made = [s \in Servers |-> 0]
    /\ sess_exits = [s \in Servers |-> [g \in ObjIds |-> 0]]
    /\ sse_exits = [s \in Servers |-> [g \in ObjIds |-> 0]]
    /\ tpc = [t \in Tasks |-> "idle"]
    /\ tsrv = [t \in Tasks |-> ""]
    /\ tfrom = [t \in Tasks |-> ""]
    /\ terr = [t \in Tasks |-> FALSE]
    /\ last_call = NoCall

\* task t is suspended at pc inside a call on server s
Suspended(t, pc, s, from, err) ==
    /\ tpc' = [tpc EXCEPT ![t] = pc]
    /\ tsrv' = [tsrv EXCEPT ![t] = s]
    /\ tfrom' = [tfrom EXCEPT ![t] = from]
    /\ terr' = [terr EXCEPT ![t] = err]
    /\ last_call' = NoCall

\* the call of task t is over: it returned or raised
Ended(t, op, out) ==
    /\ tpc' = [tpc EXCEPT ![t] = "idle"]
    /\ tsrv' = [tsrv EXCEPT ![t] = ""]
    /\ tfrom' = [tfrom EXCEPT ![t] = ""]
    /\ terr' = [terr EXCEPT ![t] = FALSE]
    /\ last_call' = [op |-> op, outcome |-> out]

\* cleanup(), lines 126-128: both references dropped, the lock released, the call ends;
\* a cleanup() run by a failing initialize() is followed by the re-raise of line 51
FinishCleanup(t, s, sessNew, sseNew, from, err) ==
    /\ session' = [session EXCEPT ![s] = sessNew]
    /\ sse_context' = [sse_context EXCEPT ![s] = sseNew]
    /\ cleanup_lock' = [cleanup_lock EXCEPT ![s] = 0]
    /\ Ended(t, from, IF from = "initialize" THEN "raised" ELSE CleanupOutcome(err))
    /\ UNCHANGED <<sess_exits, sse_exits>>

\* cleanup(), lines 117-122: the session reference is dropped; the transport is released
\* if one is referenced
AfterSession(t, s, sessNew, from, err) ==
    IF sse_context[s] # 0
    THEN /\ session' = [session EXCEPT ![s] = sessNew]
         /\ sse_exits' = [sse_exits EXCEPT ![s][sse_context[s]] = @ + 1]
         /\ cleanup_lock' = [cleanup_lock EXCEPT ![s] = t]
         /\ Suspended(t, "sse_exit", s, from, err)
         /\ UNCHANGED <<sse_context, sess_exits>>
    ELSE FinishCleanup(t, s, sessNew, sse_context[s], from, err)

\* cleanup(), lines 110-114: with the lock held, the session is released if one is referenced
Teardown(t, s, from) ==
    IF session[s] # 0
    THEN /\ sess_exits' = [sess_exits EXCEPT ![s][session[s]] = @ + 1]
         /\ cleanup_lock' = [cleanup_lock EXCEPT ![s] = t]
         /\ Suspended(t, "sess_exit", s, from, FALSE)
         /\ UNCHANGED <<session, sse_context, sse_exits>>
    ELSE AfterSession(t, s, session[s], from, FALSE)

\* cleanup(), line 110: take the lock or wait for it
EnterCleanup(t, s, from) ==
    IF LockFree(cleanup_lock[s])
    THEN Teardown(t, s, from)
    ELSE /\ Suspended(t, "lock_wait", s, from, FALSE)
         /\ UNCHANGED <<session, sse_context, cleanup_lock, sess_exits, sse_exits>>

OthersUnchanged == UNCHANGED <<now, cbVars, rlVars, clientVars>>

\* a task calls server.cleanup()
CleanupCall(t, s) ==
    /\ tpc[t] = "idle"
    /\ EnterCleanup(t, s, "cleanup")
    /\ UNCHANGED <<capabilities, sse_made, sess_made>>
    /\ OthersUnchanged

\* cleanup(), line 110: a waiting task gets the lock
CleanupAcquire(t) ==
    /\ tpc[t] = "lock_wait"
    /\ LockFree(cleanup_lock[tsrv[t]])
    /\ Teardown(t, tsrv[t], tfrom[t])
    /\ UNCHANGED <<capabilities, sse_made, sess_made>>
    /\ OthersUnchanged

\* cleanup(), lines 114-120: session.__aexit__ has returned (ok) or raised
SessionExited(t, ok) ==
    /\ tpc[t] = "sess_exit"
    /\ AfterSession(t, tsrv[t], 0, tfrom[t], terr[t] \/ ~ok)
    /\ UNCHANGED <<capabilities, sse_made, sess_made>>
    /\ OthersUnchanged

\* cleanup(), lines 122-128: sse_context.__aexit__ has returned (ok) or raised
SseExited(t, ok) ==
    /\ tpc[t] = "sse_exit"
    /\ FinishCleanup(t, tsrv[t], session[tsrv[t]], 0, tfrom[t], terr[t] \/ ~ok)
    /\ UNCHANGED <<capabilities, sse_made, sess_made>>
    /\ OthersUnchanged

\* initialize(), lines 41-43: a new sse_client context is stored and entered
InitCall(t, s) ==
    /\ tpc[t] = "idle"
    /\ InitsMade < MaxInits
    /\ sse_made' = [sse_made EXCEPT ![s] = @ + 1]
    /\ sse_context' = [sse_context EXCEPT ![s] = sse_made'[s]]
    /\ Suspended(t, "sse_enter", s, "initialize", FALSE)
    /\ UNCHANGED <<session, capabilities, cleanup_lock, sess_made, sess_exits, sse_exits>>
    /\ OthersUnchanged

\* initialize(), lines 43-45 and 48-51: the transport is open, a ClientSession is stored
\* and entered; or the opening raised and cleanup() runs
InitSseEntered(t, ok) ==
    /\ tpc[t] = "sse_enter"
    /\ IF ok
       THEN /\ sess_made' = [sess_made EXCEPT ![tsrv[t]] = @ + 1]
            /\ session' = [session EXCEPT ![tsrv[t]] = sess_made'[tsrv[t]]]
            /\ Suspended(t, "sess_enter", tsrv[t], "initialize", FALSE)
            /\ UNCHANGED <<sse_context, cleanup_lock, sess_exits, sse_exits>>
       ELSE /\ EnterCleanup(t, tsrv[t], "initialize")
            /\ UNCHANGED sess_made
    /\ UNCHANGED <<capabilities, sse_made>>
    /\ OthersUnchanged

\* initialize(), lines 45-46 and 48-51: the session is entered, the handshake is sent;
\* or entering raised and cleanup() runs
InitSessionEntered(t, ok) ==
    /\ tpc[t] = "sess_enter"
    /\ IF ok
       THEN /\ Suspended(t, "handshake", tsrv[t], "initialize", FALSE)
            /\ UNCHANGED <<session, sse_context, cleanup_lock, sess_exits, sse_exits>>
       ELSE EnterCleanup(t, tsrv[t], "initialize")
    /\ UNCHANGED <<capabilities, sse_made, sess_made>>
    /\ OthersUnchanged

\* initialize(), lines 46-51: the handshake answered and capabilities are recorded;
\* or it raised and cleanup() runs
InitHandshake(t, ok) ==
    /\ tpc[t] = "handshake"
    /\ IF ok
       THEN /\ capabilities' = [capabilities EXCEPT ![tsrv[t]] = TRUE]
            /\ Ended(t, "initialize", "returned")
            /\ UNCHANGED <<session, sse_context, cleanup_lock, sess_exits, sse_exits>>
       ELSE /\ EnterCleanup(t, tsrv[t], "initialize")
            /\ UNCHANGED capabilities
    /\ UNCHANGED <<sse_made, sess_made>>
    /\ OthersUnchanged

NotInitialized_Never(sess) == FALSE

\* server.py:63 and 95  if not self.session: raise RuntimeError(... not initialized)
NotInitialized(sess) == sess = 0

\* server.py:63-66 and 95-100: RuntimeError without a session; else the request is sent on
\* the session and its answer is returned or its failure raised
RequestOutcome(sess, ok) ==
    IF NotInitialized(sess) THEN "RuntimeError"
    ELSE IF ok THEN "returned" ELSE "raised"

\* list_tools(), lines 63-78. The wait for the answer (line 66) reads and writes no field
\* of the Server, so the call and its answer are one step.
ListTools(t, s, ok) ==
    /\ tpc[t] = "idle"
    /\ Ended(t, "list_tools", RequestOutcome(session[s], ok))
    /\ UNCHANGED srvVars
    /\ OthersUnchanged

\* execute_tool(), lines 95-104. As for list_tools, the wait of line 100 touches no field.
ExecuteTool(t, s, ok) ==
    /\ tpc[t] = "idle"
    /\ Ended(t, "execute_tool", RequestOutcome(session[s], ok))
    /\ UNCHANGED srvVars
    /\ OthersUnchanged

SrvNext ==
    \/ \E t \in Tasks, s \in Servers : CleanupCall(t, s)
    \/ \E t \in Tasks : CleanupAcquire(t)
    \/ \E t \in Tasks, ok \in BOOLEAN : SessionExited(t, ok)
    \/ \E t \in Tasks, ok \in BOOLEAN : SseExited(t, ok)
    \/ \E t \in Tasks, s \in Servers : InitCall(t, s)
    \/ \E t \in Tasks, ok \in BOOLEAN : InitSseEntered(t, ok)
    \/ \E t \in Tasks, ok \in BOOLEAN : InitSessionEntered(t, ok)
    \/ \E t \in Tasks, ok \in BOOLEAN : InitHandshake(t, ok)
    \/ \E t \in Tasks, s \in Servers, ok \in BOOLEAN : ListTools(t, s, ok)
    \/ \E t \in Tasks, s \in Servers, ok \in BOOLEAN : ExecuteTool(t, s, ok)

----------------------------------------------------------------------------
(* MCPClient: the registry of tools and the conversation loop.              *)
(* A run makes calls of initialize_servers, process_request and cleanup.    *)
(* The calls it makes on a Server are taken at the grain the client can     *)
(* see: initialize() stores the transport (line 42), then the session (line *)
(* 44), then the capabilities (line 46); a failing initialize() and         *)
(* cleanup() leave both references None.                                    *)

\* Bounds of the client model
MaxTurns == 2
MaxOps == 2
MaxPasses == 2
MaxWork == 3

\* the coroutines that can be inside a method of one client. The methods are public
\* coroutines (mcp_client.py:65, 81, 97, 265) and nothing in them keeps a second caller
\* out
Runs == {1, 2}

\* lambda_handler.py:104-110, client_example.py:48-93: the handler and the example drive
\* a client with one coroutine, which makes its calls one after the other
Drivers == {1}

\* mcp_client.py:31-36  self.servers, in configured order
ServerOrder == <<"url-fetcher", "random-web">>

\* the tool names a server may expose (mcp_client.py:45 names RandomWeb and fetch)
ToolNames == {"fetch", "RandomWeb"}

\* what server.list_tools() can give: a failure, or the list of the server's tools
ToolLists == {<<>>, <<"fetch">>, <<"fetch", "RandomWeb">>}
ListAnswers ==
    {[ok |-> FALSE, tools |-> <<>>]} \cup {[ok |-> TRUE, tools |-> l] : l \in ToolLists}

\* the texts a text block of a model output may carry
Texts == {"text", "more text"}

\* the content blocks of one model output: a text is a text block, a tool name is a
\* toolUse block for that tool
Contents ==
    {<<>>, <<"text">>, <<"fetch">>, <<"text", "fetch">>,
     <<"fetch", "RandomWeb">>, <<"RandomWeb", "fetch">>,
     <<"text", "fetch", "more text">>}

\* mcp_client.py:256  'tool_use' is the stop reason that continues the loop
StopReasons == {"tool_use", "end_turn"}

\* what invoke_model can give (lines 143-149): an exception, a response without output
\* message, or a response with an output message and a stop reason
ModelAnswers ==
    {[kind |-> "raised", has_message |-> FALSE, content |-> <<>>, stopReason |-> ""],
     [kind |-> "response", has_message |-> FALSE, content |-> <<>>, stopReason |-> "end_turn"]}
    \cup {[kind |-> "response", has_message |-> TRUE, content |-> c, stopReason |-> sr] :
             c \in Contents, sr \in StopReasons}

Range(q) == {q[i] : i \in 1..Len(q)}

\* the entries of conversation_history and of messages
Entry(role, kind, name, text) == [role |-> role, kind |-> kind, name |-> name, text |-> text]

\* line 136
UserEntry == Entry("user", "message", "", "")
\* lines 159-164
AssistantText(t) == Entry("assistant", "message", "", t)
ToolUseEntry_Anonymous(n) == Entry("assistant", "tool_use", "", "")

\* lines 171-178
ToolUseEntry(n) == Entry("assistant", "tool_use", n, "")
\* lines 193-198
ToolResultEntry(n) == Entry("tool", "result", n, "")
\* lines 215-220 (the execution failed) and 237-242 (the tool is not available)
ToolErrorEntry(n, why) == Entry("tool", "error", n, why)
\* lines 113 and 120
NoToolsReply == <<Entry("assistant", "message", "", "No tools available")>>
\* line 263
ErrorReply == <<Entry("assistant", "message", "", "Error")>>
\* lines 127-130
UserMessage == Entry("user", "text", "", "")
\* line 155
OutputMessage == Entry("assistant", "output", "", "")
\* lines 201-209 (status "") and 222-231, 244-253 (status "error"); the tool name stands
\* for the toolUseId of the request
ToolResultMessage(n, status) == Entry("user", "toolResult", n, status)

\* a run in no call. Its fields while in a call:
\*   op, pc, idx   the method called, the await it is suspended at, the index of the
\*                 server its for-loop is at
\*   all_tools, messages, conversation_history, tool_used   the locals of these names
\*   content, cidx, stopReason   the blocks of the model output being processed, the
\*                 index of the block whose execute_tool is awaited, the stop reason
\*   alias         the positions of conversation_history that hold the dict
\*                 assistant_message of the turn (line 159)
\*   turns, executed   history: the model calls made, the execute_tool calls made as
\*                 <<tool, server>>
\*   failed        history of cleanup: the servers whose release raised inside cleanup()
\*   map0, visited, listed   history of the registration pass, kept until the
\*                 conversation starts: the map the pass began with, the servers whose
\*                 initialize() was called, the servers whose tools were listed
IdleRun ==
    [op |-> "", pc |-> "idle", idx |-> 0, all_tools |-> <<>>, messages |-> <<>>,
     conversation_history |-> <<>>, content |-> <<>>, cidx |-> 0, stopReason |-> "",
     tool_used |-> FALSE, alias |-> {}, turns |-> 0, executed |-> <<>>,
     map0 |-> <<>>, visited |-> <<>>, listed |-> <<>>, failed |-> {}]

\* no call has returned in the latest step; else: which run, "returned" or "raised",
\* the value, and the run's record when it returned
NoResult == [run |-> 0, outcome |-> "", value |-> <<>>, last |-> IdleRun]

\* MCPClient.__init__, lines 36-39
ClientInit ==
    /\ tool_server_map = <<>>
    /\ run = [r \in Runs |-> IdleRun]
    /\ result = NoResult
    /\ ops = 0
    /\ model_calls = 0

\* the fields of the servers, as one record
SrvNow ==
    [session |-> session, sse_context |-> sse_context, capabilities |-> capabilities,
     sse_made |-> sse_made, sess_made |-> sess_made,
     sess_exits |-> sess_exits, sse_exits |-> sse_exits]

\* server.py:42  a new sse_client context is stored
Connect(sv, s) ==
    [sv EXCEPT !.sse_made[s] = @ + 1, !.sse_context[s] = sv.sse_made[s] + 1]

\* server.py:44  a new ClientSession is stored
StoreSession(sv, s) ==
    [sv EXCEPT !.sess_made[s] = @ + 1, !.session[s] = sv.sess_made[s] + 1]

\* server.py:46  the handshake's capabilities are recorded
Handshaken(sv, s) == [sv EXCEPT !.capabilities[s] = TRUE]

\* server.py:110-126  cleanup(): what is referenced is released, both references are None
Released(sv, s) ==
    [sv EXCEPT !.sess_exits[s] = IF sv.session[s] # 0
                                 THEN [@ EXCEPT ![sv.session[s]] = @ + 1] ELSE @,
               !.sse_exits[s] = IF sv.sse_context[s] # 0
                                THEN [@ EXCEPT ![sv.sse_context[s]] = @ + 1] ELSE @,
               !.session[s] = 0,
               !.sse_context[s] = 0]

\* the run, its result, the servers and the registry a step starts from
Flow(r) == [id |-> r, run |-> run[r], res |-> NoResult, sv |-> SrvNow, map |-> tool_server_map]

\* the method returns value (it never raises: lines 78, 93, 210, 261 catch)
Finish(f, value) ==
    [f EXCEPT !.run = IdleRun,
              !.res = [run |-> f.id, outcome |-> "returned", value |-> value,
                       last |-> [f.run EXCEPT !.pc = "returned"]]]

Failed_ReturnsTranscript(f) == Finish(f, f.run.conversation_history)

\* lines 261-263: an exception inside the loop is caught; the value returned is the one
\* assistant entry describing the error
Failed(f) == Finish(f, ErrorReply)

Continues_IgnoresStopReason(used, sr) == used
Continues_Never(used, sr) == FALSE

\* line 256  the loop goes on iff a tool was used and the stop reason is 'tool_use'
Continues(used, sr) == used /\ sr = "tool_use"

Decide_OneTurn(f) ==
    IF Continues(f.run.tool_used, f.run.stopReason) /\ f.run.turns < 1
    THEN [f EXCEPT !.run.pc = "model", !.run.cidx = 0]
    ELSE Finish(f, f.run.conversation_history)

\* lines 255-259: another model turn, or the transcript is returned
Decide(f) ==
    IF Continues(f.run.tool_used, f.run.stopReason)
    THEN [f EXCEPT !.run.pc = "model", !.run.cidx = 0]
    ELSE Finish(f, f.run.conversation_history)

ToolSucceeded_NoEntry(f, n) == f
ToolSucceeded_NoContext(f, n) ==
    [f EXCEPT !.run.conversation_history = Append(@, ToolResultEntry(n))]

\* lines 191-209: the result goes to the transcript and to the model's context
ToolSucceeded(f, n) ==
    [f EXCEPT !.run.conversation_history = Append(@, ToolResultEntry(n)),
              !.run.messages = Append(@, ToolResultMessage(n, ""))]

ToolFailed_NoContext(f, n, why) ==
    [f EXCEPT !.run.conversation_history = Append(@, ToolErrorEntry(n, why))]

\* lines 210-231 and 232-253: the error goes to the transcript and, with status error,
\* to the model's context
ToolFailed(f, n, why) ==
    [f EXCEPT !.run.conversation_history = Append(@, ToolErrorEntry(n, why)),
              !.run.messages = Append(@, ToolResultMessage(n, "error"))]

UnknownTool_Silent(f, n) == f

\* lines 232-253: the tool name is not in tool_server_map
UnknownTool(f, n) == ToolFailed(f, n, "not available")

\* lines 162-164: the text is stored in the turn's assistant_message, and that dict is
\* appended: every position that already holds it shows the new text as well
TextBlock(f, t) ==
    LET h == f.run.conversation_history
    IN  [f EXCEPT !.run.conversation_history =
                      Append([p \in 1..Len(h) |->
                                 IF p \in f.run.alias THEN AssistantText(t) ELSE h[p]],
                             AssistantText(t)),
                  !.run.alias = @ \cup {Len(h) + 1}]

NextItem_Skips(i) == i + 2

\* line 161  for content in ...: the blocks are taken one after the other
NextItem(i) == i + 1

\* lines 161-253: the content blocks from the i-th on, up to the first execute_tool
\* that has to wait for its server, or to the end of the output
RECURSIVE Process(_, _)
Process(f, i) ==
    IF i > Len(f.run.content) THEN Decide(f)
    ELSE LET c == f.run.content[i]
         IN  IF c \in Texts
             THEN Process(TextBlock(f, c), NextItem(i))
             ELSE LET g == [f EXCEPT !.run.tool_used = TRUE,
                                     !.run.conversation_history = Append(@, ToolUseEntry(c))]
                  IN  IF c \in DOMAIN g.map
                      THEN LET h == [g EXCEPT !.run.executed = Append(@, <<c, g.map[c]>>)]
                           IN  IF NotInitialized(h.sv.session[h.map[c]])
                               THEN Process(ToolFailed(h, c, "failed"), NextItem(i))
                               ELSE [h EXCEPT !.run.pc = "tool_wait", !.run.cidx = i]
                      ELSE Process(UnknownTool(g, c), NextItem(i))

CatalogDone_Unchecked(f) ==
    [f EXCEPT !.run.pc = "model",
              !.run.messages = <<UserMessage>>,
              !.run.conversation_history = <<UserEntry>>,
              !.run.map0 = <<>>, !.run.visited = <<>>, !.run.listed = <<>>]

\* lines 118-136: no tool collected: the no-tools reply; else the conversation starts
\* and the model is called
CatalogDone(f) ==
    IF f.run.all_tools = <<>>
    THEN Finish(f, NoToolsReply)
    ELSE [f EXCEPT !.run.pc = "model",
                   !.run.messages = <<UserMessage>>,
                   !.run.conversation_history = <<UserEntry>>,
                   !.run.map0 = <<>>, !.run.visited = <<>>, !.run.listed = <<>>]

\* get_all_tools, lines 88-95, from the i-th server on: list_tools raises at once on a
\* server without session (line 93 catches), else the run waits for the answer
RECURSIVE Collect(_, _)
Collect(f, i) ==
    IF i > Len(ServerOrder) THEN CatalogDone(f)
    ELSE IF NotInitialized(f.sv.session[ServerOrder[i]])
         THEN Collect(f, i + 1)
         ELSE [f EXCEPT !.run.pc = "cat_list", !.run.idx = i]

\* the end of initialize_servers: its caller gets None; process_request goes on with
\* lines 111-116
Registered(f) ==
    IF f.run.op = "initialize_servers" THEN Finish(f, <<>>)
    ELSE IF DOMAIN f.map = {} THEN Finish(f, NoToolsReply)
    ELSE Collect(f, 1)

\* initialize_servers, lines 69-71, from the i-th server on: initialize() is called
Register(f, i) ==
    IF i > Len(ServerOrder) THEN Registered(f)
    ELSE [f EXCEPT !.sv = Connect(@, ServerOrder[i]),
                   !.run.pc = "reg_init",
                   !.run.idx = i,
                   !.run.visited = Append(@, ServerOrder[i])]

ServerFailed_Aborts(f, i) == Registered(f)

\* lines 78-79: the failure of the i-th server is logged, the loop goes on
ServerFailed(f, i) == Register(f, i + 1)

Mapped_FirstWins(m, tools, s) ==
    IF Range(tools) = {} THEN m
    ELSE [n \in DOMAIN m \cup Range(tools) |-> IF n \in DOMAIN m THEN m[n] ELSE s]

\* lines 75-76  self.tool_server_map[tool["name"]] = server, for each tool listed
Mapped(m, tools, s) ==
    IF Range(tools) = {} THEN m
    ELSE [n \in DOMAIN m \cup Range(tools) |-> IF n \in Range(tools) THEN s ELSE m[n]]

\* cleanup, lines 269-270, from the i-th server on: a server holding nothing is done at
\* once, else the run waits for the release
RECURSIVE Sweep(_, _)
Sweep(f, i) ==
    IF i > Len(ServerOrder) THEN Finish(f, <<>>)
    ELSE LET g == [f EXCEPT !.run.visited = Append(@, ServerOrder[i])]
         IN  IF g.sv.session[ServerOrder[i]] = 0 /\ g.sv.sse_context[ServerOrder[i]] = 0
             THEN Sweep(g, i + 1)
             ELSE [g EXCEPT !.run.pc = "cleanup", !.run.idx = i]

ServerCleaned_Stops(f, i) ==
    IF f.run.failed = {} THEN Sweep(f, i + 1) ELSE Finish(f, <<>>)

\* line 270: server.cleanup() of the i-th server has returned (it returns also when a
\* release raised inside it), and the loop goes to the next server
ServerCleaned(f, i) == Sweep(f, i + 1)

\* the event loop runs one coroutine at a time, and invoke_model (line 143) is a plain
\* blocking call: while a run is inside it no other run takes a step
Blocked(r) == \E q \in Runs \ {r} : run[q].pc = "model"

\* the registration passes made so far (each creates one object per server)
Passes == sse_made[ServerOrder[1]]

\* the passes and the model calls made so far, together, are bounded
WorkLeft == Passes + model_calls < MaxWork

\* a pass of initialize_servers can still be started
CanRegister == Passes < MaxPasses /\ WorkLeft

Apply(r, f) ==
    /\ run' = [run EXCEPT ![r] = f.run]
    /\ result' = f.res
    /\ tool_server_map' = f.map
    /\ session' = f.sv.session
    /\ sse_context' = f.sv.sse_context
    /\ capabilities' = f.sv.capabilities
    /\ sse_made' = f.sv.sse_made
    /\ sess_made' = f.sv.sess_made
    /\ sess_exits' = f.sv.sess_exits
    /\ sse_exits' = f.sv.sse_exits
    /\ UNCHANGED <<now, cbVars, rlVars, cleanup_lock, taskVars>>

\* a method of the client is called
Called(r, op) ==
    [Flow(r) EXCEPT !.run = [IdleRun EXCEPT !.op = op, !.map0 = tool_server_map]]

\* initialize_servers() is called (client_example.py:48, lambda_handler.py:104)
StartInitializeServers(r) ==
    /\ run[r].pc = "idle"
    /\ ~Blocked(r)
    /\ ops < MaxOps
    /\ CanRegister
    /\ ops' = ops + 1
    /\ UNCHANGED model_calls
    /\ Apply(r, Register(Called(r, "initialize_servers"), 1))

\* process_request() is called: lines 107-116, registration first when the map is empty
StartProcessRequest(r) ==
    /\ run[r].pc = "idle"
    /\ ~Blocked(r)
    /\ ops < MaxOps
    /\ tool_server_map = <<>> => CanRegister
    /\ ops' = ops + 1
    /\ UNCHANGED model_calls
    /\ Apply(r, IF DOMAIN tool_server_map = {}
                THEN Register(Called(r, "process_request"), 1)
                ELSE Collect(Called(r, "process_request"), 1))

\* server.initialize(): the transport is open and the session stored, or the opening
\* failed, cleanup() has run and the registration goes on with the next server
RegTransport(r, ok) ==
    /\ run[r].pc = "reg_init"
    /\ ~Blocked(r)
    /\ UNCHANGED <<ops, model_calls>>
    /\ LET f == Flow(r)
           s == ServerOrder[run[r].idx]
       IN  Apply(r, IF ok
                    THEN [f EXCEPT !.sv = StoreSession(@, s), !.run.pc = "reg_shake"]
                    ELSE ServerFailed([f EXCEPT !.sv = Released(@, s)], run[r].idx))

\* server.initialize(): the handshake is done and list_tools() is called (line 72), or
\* it failed and cleanup() has run
RegHandshake(r, ok) ==
    /\ run[r].pc = "reg_shake"
    /\ ~Blocked(r)
    /\ UNCHANGED <<ops, model_calls>>
    /\ LET f == Flow(r)
           s == ServerOrder[run[r].idx]
       IN  Apply(r, IF ok
                    THEN IF NotInitialized(session[s])
                         THEN ServerFailed([f EXCEPT !.sv = Handshaken(@, s)], run[r].idx)
                         ELSE [f EXCEPT !.sv = Handshaken(@, s), !.run.pc = "reg_list"]
                    ELSE ServerFailed([f EXCEPT !.sv = Released(@, s)], run[r].idx))

\* lines 72-79: the tools of the server are listed and mapped, or list_tools() failed
RegListed(r, ans) ==
    /\ run[r].pc = "reg_list"
    /\ ~Blocked(r)
    /\ UNCHANGED <<ops, model_calls>>
    /\ LET f == Flow(r)
           s == ServerOrder[run[r].idx]
       IN  Apply(r, IF ans.ok
                    THEN Register([f EXCEPT !.map = Mapped(@, ans.tools, s),
                                            !.run.listed =
                                                Append(@, [server |-> s, tools |-> ans.tools])],
                                  run[r].idx + 1)
                    ELSE ServerFailed(f, run[r].idx))

\* get_all_tools, lines 91-94: the tools of one server are added, or its failure logged
CatListed(r, ans) ==
    /\ run[r].pc = "cat_list"
    /\ ~Blocked(r)
    /\ UNCHANGED <<ops, model_calls>>
    /\ Apply(r, Collect([Flow(r) EXCEPT !.run.all_tools = IF ans.ok THEN @ \o ans.tools ELSE @],
                        run[r].idx + 1))

\* lines 143-259: one call of the model and what follows from its answer. The catalog
\* (all_tools, made into tool_config at line 123) goes to the model with the call; the
\* loop reads it nowhere else, so the run holds it until its first model call only.
ModelCall(r, ans) ==
    /\ run[r].pc = "model"
    /\ model_calls < MaxTurns
    /\ WorkLeft
    /\ model_calls' = model_calls + 1
    /\ UNCHANGED ops
    /\ LET f == [Flow(r) EXCEPT !.run.turns = @ + 1, !.run.all_tools = <<>>]
       IN  Apply(r, IF ans.kind = "raised" THEN Failed(f)
                    ELSE IF ~ans.has_message THEN Finish(f, f.run.conversation_history)
                    ELSE Process([f EXCEPT !.run.messages = Append(@, OutputMessage),
                                           !.run.content = ans.content,
                                           !.run.stopReason = ans.stopReason,
                                           !.run.tool_used = FALSE,
                                           !.run.alias = {}],
                                 1))

\* lines 185-231: execute_tool has returned or raised; the remaining blocks follow
ToolReturned(r, ok) ==
    /\ run[r].pc = "tool_wait"
    /\ ~Blocked(r)
    /\ UNCHANGED <<ops, model_calls>>
    /\ LET f == Flow(r)
           n == run[r].content[run[r].cidx]
       IN  Apply(r, Process(IF ok THEN ToolSucceeded(f, n) ELSE ToolFailed(f, n, "failed"),
                            NextItem(run[r].cidx)))

\* cleanup() of the client is called (client_example.py:93, lambda_handler.py:110)
StartCleanup(r) ==
    /\ run[r].pc = "idle"
    /\ ~Blocked(r)
    /\ ops < MaxOps
    /\ ops' = ops + 1
    /\ UNCHANGED model_calls
    /\ Apply(r, Sweep(Called(r, "cleanup"), 1))

\* lines 269-270: the cleanup() of one server is over, its releases having gone well or
\* raised inside it (server.py:113-126 catches); the next server follows
CleanupReleased(r, ok) ==
    /\ run[r].pc = "cleanup"
    /\ ~Blocked(r)
    /\ UNCHANGED <<ops, model_calls>>
    /\ LET s == ServerOrder[run[r].idx]
       IN  Apply(r, ServerCleaned([Flow(r) EXCEPT !.sv = Released(@, s),
                                                  !.run.failed = IF ok THEN @ ELSE @ \cup {s}],
                                  run[r].idx))

\* a step of one of the coroutines R
ClientStep(R) ==
    \/ \E r \in R : StartInitializeServers(r)
    \/ \E r \in R : StartProcessRequest(r)
    \/ \E r \in R, ok \in BOOLEAN : RegTransport(r, ok)
    \/ \E r \in R, ok \in BOOLEAN : RegHandshake(r, ok)
    \/ \E r \in R, ans \in ListAnswers : RegListed(r, ans)
    \/ \E r \in R, ans \in ListAnswers : CatListed(r, ans)
    \/ \E r \in R, ans \in ModelAnswers : ModelCall(r, ans)
    \/ \E r \in R, ok \in BOOLEAN : ToolReturned(r, ok)
    \/ \E r \in R : StartCleanup(r)
    \/ \E r \in R, ok \in BOOLEAN : CleanupReleased(r, ok)

\* the client as the handler drives it
ClientNext == ClientStep(Drivers)

\* the client with two coroutines in its methods at once
ClientNext2 == ClientStep(Runs)

----------------------------------------------------------------------------
CBNext ==
    \/ Tick
    \/ \E p \in Callers : CallStart(p)
    \/ \E p \in Callers : CallSucceed(p)
    \/ \E p \in Callers : CallFail(p)

\* the components a specification leaves alone sit in one fixed state
CBIdle == CBInit /\ failure_threshold = 1 /\ reset_timeout = 1

RLIdle ==
    /\ calls_per_minute = 0
    /\ request_timestamps = <<>>
    /\ rl_last = NoRequest
    /\ reqlog = <<>>

InitCB == now = 0 /\ CBInit /\ RLIdle /\ SrvInit /\ ClientInit

SpecCB == InitCB /\ [][CBNext]_vars

InitRL == now = 0 /\ RLInit /\ CBIdle /\ SrvInit /\ ClientInit

SpecRL == InitRL /\ [][RLNext]_vars

InitSrv == now = 0 /\ CBIdle /\ RLIdle /\ SrvInit /\ ClientInit

SpecSrv == InitSrv /\ [][SrvNext]_vars

InitClient == now = 0 /\ CBIdle /\ RLIdle /\ SrvInit /\ ClientInit

SpecClient == InitClient /\ [][ClientNext]_vars

SpecClient2 == InitClient /\ [][ClientNext2]_vars

\* the steps of a run that are returns of what it awaits or calls: the servers and the
\* model answer every call, and the event loop resumes a coroutine whose await is over
Resume(r) ==
    \/ \E ok \in BOOLEAN : RegTransport(r, ok)
    \/ \E ok \in BOOLEAN : RegHandshake(r, ok)
    \/ \E ans \in ListAnswers : RegListed(r, ans)
    \/ \E ans \in ListAnswers : CatListed(r, ans)
    \/ \E ans \in ModelAnswers : ModelCall(r, ans)
    \/ \E ok \in BOOLEAN : ToolReturned(r, ok)
    \/ \E ok \in BOOLEAN : CleanupReleased(r, ok)

\* lambda_handler.py:104-107: the handler calls initialize_servers() and then
\* process_request() on a new client
HandlerNext ==
    \E r \in Drivers :
       \/ ops = 0 /\ StartInitializeServers(r)
       \/ ops = 1 /\ StartProcessRequest(r)
       \/ \E ok \in BOOLEAN : RegTransport(r, ok)
       \/ \E ok \in BOOLEAN : RegHandshake(r, ok)
       \/ \E ans \in ListAnswers : RegListed(r, ans)
       \/ \E ans \in ListAnswers : CatListed(r, ans)
       \/ \E ans \in ModelAnswers : ModelCall(r, ans)
       \/ \E ok \in BOOLEAN : ToolReturned(r, ok)

SpecClientLive ==
    InitClient /\ [][HandlerNext]_vars /\ \A r \in Drivers : WF_vars(Resume(r))

----------------------------------------------------------------------------
(* Claims about CircuitBreaker, checked under SpecCB *)

\* C1: whenever a call is made while the breaker is Open and the clock is strictly
\* before open_until, the call ends at once with the circuit-open error, the wrapped
\* operation is not invoked (the caller never reaches the await), and this holds for
\* every such call.
C1_FailFastWhileOpen ==
    [][\A p \in Callers :
          (CallStart(p) /\ cb_state = "open" /\ now < open_until)
             => /\ outcome'[p] = "circuit_open"
                /\ call_pc'[p] = "idle"]_vars

C1_Witness ==
    \E p \in Callers :
        /\ cb_state = "open"
        /\ outcome[p] = "circuit_open"
        /\ current_time[p] < open_until

C3_HalfOpenOnlyOnCall ==
    [][/\ now' # now => cb_state' = cb_state
       /\ (cb_state = "open" /\ cb_state' = "half-open")
             => \E p \in Callers :
                   /\ now >= open_until
                   /\ call_pc[p] = "idle"
                   /\ call_pc'[p] = "awaiting"
       /\ \A p \in Callers :
             (CallStart(p) /\ cb_state = "open" /\ now >= open_until)
                => /\ cb_state' = "half-open"
                   /\ call_pc'[p] = "awaiting"]_vars

C3_Witness ==
    \E p \in Callers :
        /\ cb_state = "half-open"
        /\ call_pc[p] = "awaiting"
        /\ failure_count >= failure_threshold
        /\ current_time[p] > open_until

\* C4: when the wrapped operation succeeds while the breaker is HalfOpen, the breaker
\* becomes Closed, failure_count is 0 and the caller gets the operation's result.
C4_HalfOpenSuccessCloses ==
    [][\A p \in Callers :
          (CallSucceed(p) /\ cb_state = "half-open")
             => /\ cb_state' = "closed"
                /\ failure_count' = 0
                /\ outcome'[p] = "result"]_vars

C4_Witness ==
    \E p \in Callers :
        /\ cb_state = "closed"
        /\ failure_count = 0
        /\ open_until > 0
        /\ outcome[p] = "result"
        /\ current_time[p] >= open_until
        /\ \A q \in Callers \ {p} : outcome[q] # "result" /\ call_pc[q] = "idle"

\* C5: when the wrapped operation fails while the breaker is HalfOpen, the breaker is
\* Open again with open_until = (clock at that failure) + reset_timeout, the caller
\* gets the operation's error, and no wrapped operation is invoked before a full
\* reset_timeout has passed since that failure.
C5_HalfOpenFailureFreshCooldown ==
    [][/\ \A p \in Callers :
             (CallFail(p) /\ cb_state = "half-open")
                => /\ cb_state' = "open"
                   /\ open_until' = now + reset_timeout
                   /\ outcome'[p] = "error"
       /\ \A p \in Callers :
             (call_pc[p] = "idle" /\ call_pc'[p] = "awaiting" /\ cooldown_from >= 0)
                => now >= cooldown_from + reset_timeout]_vars

\* C6: with other calls in flight, a call that observes Open before the deadline
\* fails fast without invoking the operation and without writing state,
\* failure_count or open_until (nothing is opened or reset a second time); and every
\* step of a call is one atomic update: a failure adds exactly one to the shared
\* counter whatever the other callers are doing, and the counter otherwise only
\* changes by the reset to 0 that closes the circuit.
C6_ConcurrentFailFast ==
    [][/\ \A p \in Callers :
             (CallStart(p) /\ cb_state = "open" /\ now < open_until)
                => /\ UNCHANGED <<cb_state, failure_count, open_until>>
                   /\ outcome'[p] = "circuit_open"
                   /\ call_pc'[p] = "idle"
                   /\ \A q \in Callers \ {p} : call_pc'[q] = call_pc[q]
       /\ \/ failure_count' = failure_count
          \/ failure_count' = failure_count + 1 /\ \E p \in Callers : CallFail(p)
          \/ failure_count' = 0 /\ cb_state' = "closed"]_vars

C6_Witness ==
    \E p, q \in Callers :
        /\ p # q
        /\ cb_state = "open"
        /\ outcome[p] = "circuit_open"
        /\ outcome[q] = "circuit_open"
        /\ current_time[p] = current_time[q]
        /\ current_time[p] < open_until

----------------------------------------------------------------------------
(* Claims about RateLimitMiddleware, checked under SpecRL *)

C8_DecisionRule ==
    [][\A ip \in Clients :
          Dispatch(ip) =>
             LET old == IF ip \in DOMAIN request_timestamps
                        THEN request_timestamps[ip] ELSE <<>>
                 remaining == SelectSeq(old, LAMBDA ts : ts > now - Window)
             IN  IF Len(remaining) >= calls_per_minute
                 THEN /\ ~rl_last'.forwarded
                      /\ rl_last'.status = 429
                 ELSE /\ rl_last'.forwarded
                      /\ request_timestamps'[ip] = Append(remaining, now)]_vars

\* C9: a rejected request is answered 429 with the JSON error body, is not passed to
\* the downstream handler (and a request that is passed on is always recorded), and
\* the rejected identity keeps exactly the timestamp list it had before the request.
C9_RejectionLeavesNoTrace ==
    [][\A ip \in Clients :
          Dispatch(ip) =>
             /\ reqlog'[Len(reqlog')][3] = rl_last'.forwarded
             /\ rl_last'.forwarded =>
                   request_timestamps'[ip][Len(request_timestamps'[ip])] = now
             /\ ~rl_last'.forwarded =>
                   /\ rl_last'.status = 429
                   /\ rl_last'.body = "{\"error\": \"Rate limit exceeded\"}"
                   /\ ip \in DOMAIN request_timestamps
                   /\ ip \in DOMAIN request_timestamps'
                   /\ request_timestamps'[ip] = request_timestamps[ip]]_vars

C9_Witness ==
    /\ calls_per_minute >= 1
    /\ rl_last.status = 429
    /\ ~rl_last.forwarded
    /\ rl_last.ip \in DOMAIN request_timestamps
    /\ Len(request_timestamps[rl_last.ip]) = calls_per_minute
    /\ reqlog[Len(reqlog)] = <<rl_last.ip, now, FALSE>>
    /\ \A k \in 1..calls_per_minute : request_timestamps[rl_last.ip][k] < now

----------------------------------------------------------------------------
(* Claims about Server, checked under SpecSrv *)

\* C10: for any sequential or concurrent cleanup() calls on the sessions: no cleanup()
\* call raises; at most one task at a time is inside the teardown of one session; no
\* ClientSession and no sse context is ever released (__aexit__ called) more than once;
\* a call that finds both references already dropped releases nothing, changes nothing
\* and returns; and the lock is the session's own: a call starts waiting only when the
\* lock of its own session is held, by a task tearing down that same session, whatever
\* the state of the other sessions' locks.
C10_CleanupIdempotentRaceSafe ==
    /\ [](/\ last_call.op = "cleanup" => last_call.outcome = "returned"
          /\ \A s \in Servers :
                Cardinality({t \in Tasks : /\ tsrv[t] = s
                                           /\ tpc[t] \in {"sess_exit", "sse_exit"}}) <= 1
          /\ \A s \in Servers, g \in ObjIds :
                sess_exits[s][g] <= 1 /\ sse_exits[s][g] <= 1)
    /\ [][/\ \A t \in Tasks, s \in Servers :
                (CleanupCall(t, s) /\ cleanup_lock[s] = 0)
                   => /\ tpc'[t] # "lock_wait"
                      /\ (session[s] = 0 /\ sse_context[s] = 0)
                            => /\ UNCHANGED srvVars
                               /\ tpc'[t] = "idle"
                               /\ last_call' = [op |-> "cleanup", outcome |-> "returned"]
          /\ \A t \in Tasks :
                (CleanupAcquire(t) /\ session[tsrv[t]] = 0 /\ sse_context[tsrv[t]] = 0)
                   => /\ UNCHANGED srvVars
                      /\ tpc'[t] = "idle"
          /\ \A t \in Tasks :
                (tpc[t] # "lock_wait" /\ tpc'[t] = "lock_wait")
                   => /\ cleanup_lock[tsrv'[t]] \in Tasks \ {t}
                      /\ tsrv[cleanup_lock[tsrv'[t]]] = tsrv'[t]
                      /\ tpc[cleanup_lock[tsrv'[t]]] \in {"sess_exit", "sse_exit"}]_vars

C10_Witness ==
    \E a, b \in Tasks, s \in Servers :
        /\ a # b
        /\ tsrv[a] = s /\ tsrv[b] = s
        /\ tfrom[a] = "cleanup" /\ tfrom[b] = "cleanup"
        /\ tpc[a] = "sse_exit"
        /\ tpc[b] = "lock_wait"
        /\ session[s] = 0
        /\ sess_exits[s][1] = 1
        /\ sse_exits[s][1] = 1

\* C11: cleanup() releases the two resources independently. Whether the release of the
\* session returned or raised, the session reference is dropped and, when a transport
\* is referenced, its release is attempted; and whatever sub-release raised, the call
\* returns normally with the transport reference cleared and the session reference
\* cleared. (The one session a returning cleanup() can leave referenced is not one it
\* was asked to release: a session that a concurrent initialize() stored after the
\* teardown had dropped the reference, which no teardown has seen, so never released.)
C11_CleanupReleasesIndependently ==
    [][\A t \in Tasks :
          tfrom[t] = "cleanup"
             => /\ \A ok \in BOOLEAN :
                      SessionExited(t, ok)
                         => /\ session'[tsrv[t]] = 0
                            /\ IF sse_context[tsrv[t]] # 0
                               THEN /\ tpc'[t] = "sse_exit"
                                    /\ sse_exits'[tsrv[t]][sse_context[tsrv[t]]]
                                          = sse_exits[tsrv[t]][sse_context[tsrv[t]]] + 1
                               ELSE tpc'[t] = "idle"
                /\ (tpc[t] # "idle" /\ tpc'[t] = "idle")
                      => /\ last_call' = [op |-> "cleanup", outcome |-> "returned"]
                         /\ sse_context'[tsrv[t]] = 0
                         /\ \/ session'[tsrv[t]] = 0
                            \/ sess_exits'[tsrv[t]][session'[tsrv[t]]] = 0]_vars

\* the release of the session has raised, and the release of the transport is under way
C11_Witness ==
    \E t \in Tasks :
        /\ tfrom[t] = "cleanup"
        /\ tpc[t] = "sse_exit"
        /\ terr[t]
        /\ session[tsrv[t]] = 0
        /\ sse_context[tsrv[t]] # 0
        /\ sess_exits[tsrv[t]][1] = 1
        /\ sse_exits[tsrv[t]][sse_context[tsrv[t]]] = 1

\* C12: when opening the transport, entering the session or the handshake fails inside
\* initialize(), the call goes into cleanup() at once and raises only when cleanup() is
\* over; when it raises, the transport reference is cleared and so is the session
\* reference (but for a session stored meanwhile by another initialize(), see C11); the
\* call never goes back to connecting and opens no second connection; and list_tools
\* and execute_tool on a server without session reference raise RuntimeError.
C12_InitializeFailureCleansUp ==
    [][/\ \A t \in Tasks :
             (tfrom[t] = "initialize" /\ tpc'[t] # tpc[t])
                => /\ sse_made' = sse_made
                   /\ tpc[t] \in CleanupPcs => tpc'[t] \notin InitPcs
                   /\ (/\ tpc[t] \in InitPcs
                       /\ tpc'[t] \notin InitPcs
                       /\ last_call' # [op |-> "initialize", outcome |-> "returned"])
                         => \/ tpc'[t] \in CleanupPcs
                            \/ /\ tpc'[t] = "idle"
                               /\ cleanup_lock[tsrv[t]] = 0
                               /\ session[tsrv[t]] = 0
                               /\ sse_context[tsrv[t]] = 0
                   /\ (/\ tpc'[t] = "idle"
                       /\ last_call' # [op |-> "initialize", outcome |-> "returned"])
                         => /\ last_call' = [op |-> "initialize", outcome |-> "raised"]
                            /\ sse_context'[tsrv[t]] = 0
                            /\ cleanup_lock'[tsrv[t]] # t
                            /\ \/ session'[tsrv[t]] = 0
                               \/ sess_exits'[tsrv[t]][session'[tsrv[t]]] = 0
       /\ \A t \in Tasks, s \in Servers, ok \in BOOLEAN :
             ((ListTools(t, s, ok) \/ ExecuteTool(t, s, ok)) /\ session[s] = 0)
                => last_call'.outcome = "RuntimeError"]_vars

\* an initialize() whose session was stored has failed: both objects were released by
\* its cleanup() and the failure has just been raised
C12_Witness ==
    \E s \in Servers :
        /\ last_call = [op |-> "initialize", outcome |-> "raised"]
        /\ sse_made[s] = 1 /\ sess_made[s] = 1
        /\ session[s] = 0 /\ sse_context[s] = 0
        /\ sess_exits[s][1] = 1 /\ sse_exits[s][1] = 1
        /\ ~capabilities[s]

\* C13: list_tools and execute_tool raise RuntimeError and send nothing whenever the
\* session is not Ready: before initialize(), while initialize() has not completed the
\* handshake (another task calling meanwhile), and after cleanup().
C13_NotReadyRaises ==
    [][\A t \in Tasks, s \in Servers, ok \in BOOLEAN :
          ((ListTools(t, s, ok) \/ ExecuteTool(t, s, ok)) /\ ~Ready(s))
             => last_call'.outcome = "RuntimeError"]_vars

----------------------------------------------------------------------------
(* Claims about MCPClient, checked under SpecClient *)

RegPcs == {"reg_init", "reg_shake", "reg_list"}

\* the calls whose registration pass is over in this state: the run that is collecting
\* the catalog, and the call that returned in the latest step
PassesOver ==
    {q \in {run[r] : r \in Runs} \cup {result.last} :
        /\ q.op \in {"initialize_servers", "process_request"}
        /\ q.visited # <<>>
        /\ \/ q = result.last /\ result.run # 0
           \/ q.pc = "cat_list"}

\* the positions of the list l of successful listings at which the tool n is exposed
Listing(l, n) == {i \in 1..Len(l) : n \in Range(l[i].tools)}

Max(S) == CHOOSE x \in S : \A y \in S : y <= x

\* the registry that the listings l, made in this order over the registry m0, stand for
RegistryFrom(m0, l) ==
    [n \in DOMAIN m0 \cup {x \in ToolNames : Listing(l, x) # {}} |->
        IF Listing(l, n) # {} THEN l[Max(Listing(l, n))].server ELSE m0[n]]

\* the position of the server s in the configured order
Position(s) == CHOOSE i \in 1..Len(ServerOrder) : ServerOrder[i] = s

\* C14: registration tolerates partial failure. Whichever servers fail in initialize()
\* or list_tools(), the pass calls initialize() on every configured server in the
\* configured order, no call of the client raises, and when the pass is over the map is
\* the one the successful listings stand for: over the map the pass began with, and so,
\* for a pass that began with an empty map, exactly the tools of the servers that were
\* listed and none of a server that failed.
C14_RegistrationTolerant ==
    /\ result.outcome # "raised"
    /\ \A r \in Runs :
          run[r].pc \in RegPcs => run[r].visited = SubSeq(ServerOrder, 1, run[r].idx)
    /\ \A q \in PassesOver :
          /\ q.visited = ServerOrder
          /\ \A i \in 1..Len(q.listed) : \A j \in 1..Len(q.listed) :
                i < j => Position(q.listed[i].server) < Position(q.listed[j].server)
          /\ tool_server_map = RegistryFrom(q.map0, q.listed)
          /\ q.map0 = <<>> =>
                \A n \in ToolNames :
                    n \in DOMAIN tool_server_map <=>
                        \E i \in 1..Len(q.listed) : n \in Range(q.listed[i].tools)

\* initialize_servers has returned: the first server failed, the second was listed, and
\* the map, empty before, holds the tools of the second
C14_Witness ==
    /\ result.run # 0
    /\ result.outcome = "returned"
    /\ result.last.op = "initialize_servers"
    /\ result.last.map0 = <<>>
    /\ result.last.visited = ServerOrder
    /\ result.last.listed = <<[server |-> "random-web", tools |-> <<"fetch", "RandomWeb">>]>>
    /\ DOMAIN tool_server_map = {"fetch", "RandomWeb"}
    /\ \A n \in DOMAIN tool_server_map : tool_server_map[n] = "random-web"

\* C15: when two servers listed in one registration pass expose the same tool name, the
\* name is in the map once the pass is over and maps to one server: of the servers that
\* exposed it, the one that comes latest in the configured order. The outcome is a
\* function of the configured order and of the listings alone.
C15_LaterServerWins ==
    \A q \in PassesOver : \A n \in ToolNames :
        Cardinality(Listing(q.listed, n)) >= 2 =>
            /\ n \in DOMAIN tool_server_map
            /\ tool_server_map[n] =
                  ServerOrder[Max({Position(q.listed[k].server) : k \in Listing(q.listed, n)})]
            /\ \A k \in Listing(q.listed, n) :
                  Position(q.listed[k].server) <= Position(tool_server_map[n])

\* both servers were listed and both expose fetch: fetch maps to the second
C15_Witness ==
    \E q \in PassesOver :
        /\ Len(q.listed) = 2
        /\ q.listed[1] = [server |-> "url-fetcher", tools |-> <<"fetch">>]
        /\ "fetch" \in Range(q.listed[2].tools)
        /\ q.listed[2].server = "random-web"
        /\ tool_server_map["fetch"] = "random-web"

\* the conversations of this state: the runs inside the loop of process_request, and the
\* process_request that returned in the latest step
Conversations ==
    {q \in {run[r] : r \in Runs} \cup {result.last} :
        /\ q.op = "process_request"
        /\ \/ q = result.last /\ result.run # 0
           \/ q.pc \in {"model", "tool_wait"}}

IsToolEntry(e) == e.role = "tool"
IsToolResult(e) == e.kind = "toolResult"

\* the tool entries of a transcript, the tool results of a model context
ToolEntries(h) == SelectSeq(h, IsToolEntry)
ToolResults(m) == SelectSeq(m, IsToolResult)

\* C16: a tool name that is not in the registry is never passed to execute_tool of any
\* server; in a run of process_request its request is followed at once in the
\* transcript by a tool entry marked as an error ("not available"), the model context
\* gets a tool result of status error for it, and no call raises.
C16_AbsentToolNotDispatched ==
    /\ result.outcome # "raised"
    /\ \A q \in Conversations :
          LET h == q.conversation_history
              te == ToolEntries(h)
              tr == ToolResults(q.messages)
          IN  /\ \A k \in 1..Len(q.executed) :
                    /\ q.executed[k][1] \in DOMAIN tool_server_map
                    /\ q.executed[k][2] = tool_server_map[q.executed[k][1]]
              /\ \A p \in 1..Len(h) :
                    h[p].kind = "tool_use" /\ h[p].name \notin DOMAIN tool_server_map =>
                        /\ p < Len(h)
                        /\ h[p + 1] = ToolErrorEntry(h[p].name, "not available")
              /\ \A p \in 1..Len(h) :
                    h[p].role = "tool" /\ h[p].text = "not available" =>
                        /\ h[p].name \notin DOMAIN tool_server_map
                        /\ h[p].kind = "error"
              /\ Len(te) = Len(tr)
              /\ \A k \in 1..Len(te) :
                    /\ te[k].name = tr[k].name
                    /\ te[k].kind = "error" <=> tr[k].text = "error"

\* the model asked for RandomWeb, which no server exposed: it was not executed, the
\* transcript holds the request and its error entry, the model context the error result
C16_Witness ==
    \E q \in Conversations :
        /\ "RandomWeb" \notin DOMAIN tool_server_map
        /\ \A k \in 1..Len(q.executed) : q.executed[k][1] # "RandomWeb"
        /\ \E p \in 1..Len(q.conversation_history) - 1 :
              /\ q.conversation_history[p] = ToolUseEntry("RandomWeb")
              /\ q.conversation_history[p + 1] = ToolErrorEntry("RandomWeb", "not available")
        /\ ToolResultMessage("RandomWeb", "error") \in Range(q.messages)

\* the calls of process_request that are in their setup, before the conversation, or
\* that returned from it in the latest step
SetupCalls ==
    {q \in {run[r] : r \in Runs} \cup {result.last} :
        /\ q.op = "process_request"
        /\ \/ q = result.last /\ result.run # 0 /\ q.turns = 0
           \/ q.pc \in RegPcs \cup {"cat_list"}}

\* C17: process_request runs a registration pass first exactly when it is called with an
\* empty map. It collects the catalog only with a non-empty map and calls the model only
\* with a non-empty map and a non-empty catalog; a call that returns from its setup
\* returns one assistant message saying that no tools are available, having called
\* neither the model nor a tool.
C17_NoToolsWithoutModel ==
    /\ \A q \in SetupCalls : q.map0 = <<>> <=> q.visited # <<>>
    /\ \A r \in Runs :
          /\ run[r].op = "process_request" /\ run[r].pc \in {"cat_list", "model", "tool_wait"}
                => DOMAIN tool_server_map # {}
          /\ run[r].pc = "model" /\ run[r].turns = 0 => run[r].all_tools # <<>>
          /\ run[r].op = "process_request" /\ run[r].pc \in RegPcs \cup {"cat_list"}
                => run[r].turns = 0 /\ run[r].executed = <<>>
    /\ result.run # 0 /\ result.last.op = "process_request" /\ result.last.turns = 0 =>
          /\ result.outcome = "returned"
          /\ result.value = NoToolsReply
          /\ Len(result.value) = 1
          /\ result.value[1].role = "assistant"
          /\ result.last.executed = <<>>
          /\ DOMAIN tool_server_map = {} \/ result.last.all_tools = <<>>

\* process_request was called with an empty map, registered lazily and got a non-empty
\* registry, collected an empty catalog and returned the no-tools reply
C17_Witness ==
    /\ result.run # 0
    /\ result.last.op = "process_request"
    /\ result.last.map0 = <<>>
    /\ result.last.visited = ServerOrder
    /\ DOMAIN tool_server_map # {}
    /\ result.last.all_tools = <<>>
    /\ result.last.turns = 0
    /\ result.value = NoToolsReply
    /\ model_calls = 0

IsToolUse(e) == e.kind = "tool_use"
IsExecution(e) == e.role = "tool" /\ e.text # "not available"
IsRequest(c) == c \notin Texts

\* the tool requests among the first n blocks of an output
Requests(content, n) == SelectSeq(SubSeq(content, 1, n), IsRequest)

\* the last n elements of a sequence
Tail_n(q, n) == SubSeq(q, Len(q) - n + 1, Len(q))

Names(q) == [k \in 1..Len(q) |-> q[k].name]

\* C18: the tool requests of one model output are handled one at a time, in the order
\* of the output. At most one execute_tool of a run is under way, it is the last one
\* started, and it is for the block the run is at; the outcome of every earlier one is in
\* the transcript before it. The requests taken so far from the latest output, their tool
\* entries in the transcript and their tool results in the model context are in the order
\* of the output, and in the transcript each tool entry directly follows its request.
C18_ToolsInOutputOrder ==
    \A q \in Conversations :
        LET h == q.conversation_history
            waiting == q.pc = "tool_wait"
            started == Requests(q.content, IF waiting THEN q.cidx ELSE Len(q.content))
            handled == Requests(q.content, IF waiting THEN q.cidx - 1 ELSE Len(q.content))
            uses == SelectSeq(h, IsToolUse)
            te == ToolEntries(h)
            tr == ToolResults(q.messages)
            ex == SelectSeq(h, IsExecution)
        IN  /\ Len(ex) = Len(q.executed) - (IF waiting THEN 1 ELSE 0)
            /\ \A k \in 1..Len(ex) : ex[k].name = q.executed[k][1]
            /\ waiting => q.executed[Len(q.executed)][1] = q.content[q.cidx]
            /\ Len(uses) >= Len(started)
            /\ Names(Tail_n(uses, Len(started))) = started
            /\ Len(te) >= Len(handled) /\ Len(tr) >= Len(handled)
            /\ Names(Tail_n(te, Len(handled))) = handled
            /\ Names(Tail_n(tr, Len(handled))) = handled
            /\ \A p \in 1..Len(h) :
                  /\ h[p].role = "tool" => p > 1 /\ h[p - 1] = ToolUseEntry(h[p].name)
                  /\ h[p].kind = "tool_use" =>
                        IF p = Len(h) THEN waiting
                        ELSE h[p + 1].role = "tool" /\ h[p + 1].name = h[p].name

\* the output asked for fetch, then RandomWeb: the outcome of fetch is in the transcript,
\* RandomWeb is being executed
C18_Witness ==
    \E r \in Runs :
        /\ run[r].pc = "tool_wait"
        /\ run[r].content = <<"fetch", "RandomWeb">>
        /\ run[r].cidx = 2
        /\ Len(run[r].executed) = 2
        /\ run[r].executed[1][1] = "fetch"
        /\ run[r].executed[2][1] = "RandomWeb"
        /\ Names(ToolEntries(run[r].conversation_history)) = <<"fetch">>
        /\ run[r].conversation_history[Len(run[r].conversation_history)] = ToolUseEntry("RandomWeb")

IsErrorEntry(e) == e.role = "tool" /\ e.kind = "error"
IsAssistantText(e) == e.role = "assistant" /\ e.kind = "message"

\* the transcript h2 has every entry of the transcript h at its place, but for the text
\* of assistant messages (what becomes of those is the matter of C30)
Extends(h, h2) ==
    /\ Len(h2) >= Len(h)
    /\ \A p \in 1..Len(h) :
          IF IsAssistantText(h[p]) THEN IsAssistantText(h2[p]) ELSE h2[p] = h[p]
IsErrorResult(e) == e.kind = "toolResult" /\ e.text = "error"

\* the record of the run r after a step: the run's, or the one it returned with
After(r) == IF run'[r].pc = "idle" THEN result'.last ELSE run'[r]

\* what a step of the run r that processes blocks of a model output does, whether or not
\* tools fail in it: transcript and model context keep what they hold, each error entry of the
\* transcript comes with an error result in the context, all blocks up to the next
\* awaited execute_tool or to the end of the output are taken, nothing is raised, and with
\* a request in the output and the stop reason tool_use the run goes on
FailureFolded(r) ==
    LET q == run[r]
        q2 == After(r)
        h == q.conversation_history
        h2 == q2.conversation_history
        m == q.messages
        m2 == q2.messages
        newh == SubSeq(h2, Len(h) + 1, Len(h2))
        newm == SubSeq(m2, Len(m) + 1, Len(m2))
        resumed == q.pc = "tool_wait"
        waiting == run'[r].pc = "tool_wait"
        from == IF resumed THEN q.cidx ELSE 0
        to == IF waiting THEN q2.cidx ELSE Len(q2.content)
    IN  /\ Extends(h, h2)
        /\ Len(m2) >= Len(m) /\ SubSeq(m2, 1, Len(m)) = m
        /\ Names(SelectSeq(newh, IsErrorEntry)) = Names(SelectSeq(newm, IsErrorResult))
        /\ Names(SelectSeq(newh, IsToolUse)) = SelectSeq(SubSeq(q2.content, from + 1, to), IsRequest)
        /\ Names(ToolEntries(newh)) =
              SelectSeq(SubSeq(q2.content, IF resumed THEN from ELSE 1,
                                           IF waiting THEN to - 1 ELSE to), IsRequest)
        /\ result'.outcome # "raised"
        /\ run'[r].pc = "idle" => result'.outcome = "returned" /\ result'.value = h2
        /\ q2.stopReason = "tool_use" /\ Requests(q2.content, Len(q2.content)) # <<>>
              => run'[r].pc \in {"model", "tool_wait"}

\* C19 (as amended): a failing tool does not end the conversation. When an execute_tool
\* fails, the transcript gets the tool's entry marked as an error and the model context a
\* tool result of status error; the same holds for a tool that is not registered. The
\* remaining blocks of the output are still processed, nothing is raised, and the run
\* goes on to another model call whenever the stop reason of the output is tool_use; with
\* another stop reason the transcript is returned, as after a success.
C19_FailureDoesNotAbort ==
    [][\A r \in Runs :
          /\ \A ok \in BOOLEAN :
                ToolReturned(r, ok) =>
                    /\ FailureFolded(r)
                    /\ ~ok =>
                          LET n == run[r].content[run[r].cidx]
                              h == run[r].conversation_history
                              m == run[r].messages
                          IN  /\ After(r).conversation_history[Len(h) + 1]
                                    = ToolErrorEntry(n, "failed")
                              /\ After(r).messages[Len(m) + 1] = ToolResultMessage(n, "error")
          /\ \A ans \in ModelAnswers :
                ans.has_message /\ ModelCall(r, ans) => FailureFolded(r)]_vars

\* C19 (as stated): after a failing execute_tool the run always goes on to another model
\* call and does not return.
C19_AlwaysAnotherTurn ==
    [][\A r \in Runs : ToolReturned(r, FALSE) => run'[r].pc \in {"model", "tool_wait"}]_vars

\* fetch has failed, stop reason tool_use: the error is in the transcript and in the
\* model context, and the run is about to call the model again
C19_Witness ==
    \E r \in Runs :
        /\ run[r].pc = "model"
        /\ run[r].turns >= 1
        /\ run[r].stopReason = "tool_use"
        /\ run[r].conversation_history[Len(run[r].conversation_history)]
              = ToolErrorEntry("fetch", "failed")
        /\ run[r].messages[Len(run[r].messages)] = ToolResultMessage("fetch", "error")
        /\ sess_made[tool_server_map["fetch"]] >= 1

\* the run r returns its transcript, which extends the transcript h it had
ReturnsTranscript(r, h) ==
    /\ run'[r].pc = "idle"
    /\ result'.run = r
    /\ result'.outcome = "returned"
    /\ result'.value = result'.last.conversation_history
    /\ Extends(h, result'.value)

\* C20: when the processing of a model output is over (no execute_tool is awaited any
\* more), the run goes on to another model call if and only if there was an output
\* message, it held at least one tool request, and the stop reason is tool_use; in every
\* other case (no output message, no tool request, another stop reason) the call returns
\* the transcript.
C20_ContinuationRule ==
    [][\A r \in Runs :
          /\ \A ans \in ModelAnswers :
                ans.kind = "response" /\ ModelCall(r, ans) /\ run'[r].pc # "tool_wait" =>
                    /\ run'[r].pc = "model" <=>
                          /\ ans.has_message
                          /\ Requests(ans.content, Len(ans.content)) # <<>>
                          /\ ans.stopReason = "tool_use"
                    /\ run'[r].pc # "model" => ReturnsTranscript(r, run[r].conversation_history)
                    /\ ~ans.has_message => result'.value = run[r].conversation_history
          /\ \A ok \in BOOLEAN :
                ToolReturned(r, ok) /\ run'[r].pc # "tool_wait" =>
                    /\ Requests(run[r].content, Len(run[r].content)) # <<>>
                    /\ run'[r].pc = "model" <=> run[r].stopReason = "tool_use"
                    /\ run'[r].pc # "model" => ReturnsTranscript(r, run[r].conversation_history)]_vars

\* a tool was executed and returned, but the stop reason of the output was not tool_use:
\* the call has returned the transcript, which ends with the tool's result
C20_Witness ==
    /\ result.run # 0
    /\ result.last.op = "process_request"
    /\ result.last.turns >= 1
    /\ result.last.tool_used
    /\ result.last.stopReason = "end_turn"
    /\ result.value # <<>>
    /\ result.value[Len(result.value)] = ToolResultEntry("fetch")

\* a run that has so far had j turns, each with one request for a registered tool and
\* the stop reason tool_use, all executed: the user message, then j times a tool-use
\* entry and the tool entry of the same name
Chain(q, j) ==
    /\ q.turns = j
    /\ Len(q.executed) = j
    /\ Len(q.conversation_history) = 2 * j + 1
    /\ q.conversation_history[1] = UserEntry
    /\ \A i \in 1..j :
          /\ IsToolUse(q.conversation_history[2 * i])
          /\ q.conversation_history[2 * i + 1].role = "tool"
          /\ q.conversation_history[2 * i + 1].name = q.conversation_history[2 * i].name
          /\ q.executed[i][1] = q.conversation_history[2 * i].name

\* a model answer of exactly one tool request with stop reason tool_use, and one of
\* exactly one text block
OneRequest(ans) ==
    /\ ans.kind = "response" /\ ans.has_message
    /\ Len(ans.content) = 1 /\ IsRequest(ans.content[1])
    /\ ans.stopReason = "tool_use"
PlainText(ans) ==
    /\ ans.kind = "response" /\ ans.has_message
    /\ Len(ans.content) = 1 /\ ans.content[1] \in Texts

\* C21: in a run whose model turns so far each asked for exactly one (registered) tool
\* with stop reason tool_use, each such turn makes exactly one execute_tool call and adds
\* to the transcript the tool-use entry and then the tool entry (the result, or the error
\* if the execution failed); a turn of one text block then returns the transcript: after
\* k tool turns, k tool calls and 2k+2 entries, the user message first and the
\* assistant's text last.
C21_ToolTurnsThenText ==
    [][\A r \in Runs :
          LET q == run[r]
              h == q.conversation_history
          IN  /\ q.pc = "model" /\ Chain(q, q.turns) =>
                    \A ans \in ModelAnswers :
                       /\ OneRequest(ans) /\ ans.content[1] \in DOMAIN tool_server_map
                             /\ ModelCall(r, ans) =>
                             LET n == ans.content[1]
                             IN  IF run'[r].pc = "tool_wait"
                                 THEN /\ run'[r].conversation_history = Append(h, ToolUseEntry(n))
                                      /\ run'[r].executed
                                            = Append(q.executed, <<n, tool_server_map[n]>>)
                                      /\ run'[r].turns = q.turns + 1
                                      /\ run'[r].content = <<n>> /\ run'[r].cidx = 1
                                 ELSE /\ run'[r].pc = "model"
                                      /\ NotInitialized(session[tool_server_map[n]])
                                      /\ Chain(run'[r], q.turns + 1)
                       /\ PlainText(ans) /\ ModelCall(r, ans) =>
                             /\ run'[r].pc = "idle"
                             /\ result'.outcome = "returned"
                             /\ result'.value = Append(h, AssistantText(ans.content[1]))
                             /\ Len(result'.value) = 2 * q.turns + 2
                             /\ Len(result'.last.executed) = q.turns
              /\ /\ q.pc = "tool_wait" /\ Len(q.content) = 1 /\ q.stopReason = "tool_use"
                 /\ Len(h) = 2 * q.turns /\ Len(q.executed) = q.turns
                 /\ Chain([q EXCEPT !.turns = @ - 1, !.executed = SubSeq(@, 1, Len(@) - 1),
                                    !.conversation_history = SubSeq(@, 1, Len(@) - 1)],
                          q.turns - 1)
                 => \A ok \in BOOLEAN :
                       ToolReturned(r, ok) =>
                           /\ run'[r].pc = "model"
                           /\ Chain(run'[r], q.turns)
                           /\ run'[r].conversation_history =
                                 Append(h, IF ok THEN ToolResultEntry(q.content[1])
                                           ELSE ToolErrorEntry(q.content[1], "failed"))]_vars

\* k = 1: one tool turn, then a text turn: one tool call, four entries
C21_Witness ==
    /\ result.run # 0
    /\ result.outcome = "returned"
    /\ result.last.turns = 2
    /\ result.last.executed = <<<<"fetch", tool_server_map["fetch"]>>>>
    /\ result.value = <<UserEntry, ToolUseEntry("fetch"), ToolResultEntry("fetch"),
                        AssistantText("text")>>

\* C22: when the call of the model raises, process_request does not raise: it returns,
\* and the value returned is exactly one entry, of role assistant, describing the error,
\* whatever the transcript held before.
C22_FailureGivesErrorReply ==
    [][\A r \in Runs : \A ans \in ModelAnswers :
          ans.kind = "raised" /\ ModelCall(r, ans) =>
              /\ run'[r].pc = "idle"
              /\ result'.run = r
              /\ result'.outcome = "returned"
              /\ result'.value = ErrorReply
              /\ Len(result'.value) = 1
              /\ result'.value[1].role = "assistant"
              /\ result'.value[1].text = "Error"
              /\ result'.last.conversation_history = run[r].conversation_history]_vars

\* the second model call raised: the transcript of the first turn, with its tool
\* entries, is not returned; the error reply is
C22_Witness ==
    /\ result.run # 0
    /\ result.outcome = "returned"
    /\ result.value = ErrorReply
    /\ result.last.turns = 2
    /\ Len(result.last.conversation_history) >= 3
    /\ result.last.executed # <<>>

\* C23: cleanup() of the client calls cleanup() on every configured server, in order, also
\* after a release of an earlier server has raised; it returns without raising, and when
\* it has returned no server holds a session or a transport: both references of every
\* server are None, and the session and the transport each server created last have had
\* their release attempted. While it runs, the servers it has passed hold nothing.
C23_CleanupReleasesAll ==
    /\ \A r \in Runs :
          run[r].pc = "cleanup" =>
              /\ run[r].visited = SubSeq(ServerOrder, 1, run[r].idx)
              /\ \A i \in 1..(run[r].idx - 1) :
                    session[ServerOrder[i]] = 0 /\ sse_context[ServerOrder[i]] = 0
    /\ result.run # 0 /\ result.last.op = "cleanup" =>
          /\ result.outcome = "returned"
          /\ result.last.visited = ServerOrder
          /\ \A s \in Servers : session[s] = 0 /\ sse_context[s] = 0
          /\ \A s \in Servers : sess_made[s] >= 1 => sess_exits[s][sess_made[s]] >= 1
          /\ \A s \in Servers : sse_made[s] >= 1 => sse_exits[s][sse_made[s]] >= 1

\* the release of the first server raised; the second server, which held a session, was
\* released all the same
C23_Witness ==
    /\ result.run # 0
    /\ result.last.op = "cleanup"
    /\ "url-fetcher" \in result.last.failed
    /\ sess_made["random-web"] = 1
    /\ sess_exits["random-web"][1] = 1
    /\ sse_exits["random-web"][1] = 1
    /\ \A s \in Servers : session[s] = 0 /\ sse_context[s] = 0

\* C24: every tool name in tool_server_map maps to one configured server, and that
\* server is Ready: it holds a session whose handshake is done. (A name whose server was
\* closed, or failed a later initialize(), would have to be out of the map.)
C24_RegistryResolvesToReady ==
    \A n \in DOMAIN tool_server_map :
        /\ tool_server_map[n] \in Servers
        /\ Ready(tool_server_map[n])

\* the server was connected at least once and holds nothing now: cleanup(), or a failed
\* initialize(), has closed it
Closed(s) == sse_made[s] >= 1 /\ session[s] = 0 /\ sse_context[s] = 0

\* C25: a closed server stays closed: no later operation gives it a transport or a
\* session again; and a server that is Ready is not connected anew.
C25_ClosedIsTerminal ==
    [][\A s \in Servers :
          /\ Closed(s) => Closed(s)'
          /\ Ready(s) => sse_made'[s] = sse_made[s]]_vars

----------------------------------------------------------------------------
(* Further claims about RateLimitMiddleware, checked under SpecRL *)

\* the requests up to the i-th that were admitted for the identity of the i-th inside the
\* window that ends with the i-th
AdmittedInWindow(i) ==
    {j \in 1..i : /\ reqlog[j][1] = reqlog[i][1]
                  /\ reqlog[j][3]
                  /\ reqlog[j][2] > reqlog[i][2] - Window}

\* C26: dispatch() prunes, tests and records without suspending, so it is one step with
\* respect to every other request; whatever the order of the requests, the number of
\* requests of one identity admitted within a trailing window is never above the limit.
C26_AdmittedWithinLimit ==
    \A i \in 1..Len(reqlog) : Cardinality(AdmittedInWindow(i)) <= calls_per_minute

\* C27: after every admission check, admitting or rejecting, and for every identity, not
\* only the caller's: the dict holds no identity with an empty list, and every timestamp
\* it holds is newer than now - 60. An identity whose timestamps have all expired is
\* removed by the next check, whoever makes it (if it makes the check itself, it is
\* entered anew with the one timestamp now).
C27_MapPrunedOnEveryCheck ==
    [][\A ip \in Clients :
          Dispatch(ip) =>
             /\ \A i \in DOMAIN request_timestamps' :
                   /\ request_timestamps'[i] # <<>>
                   /\ \A k \in 1..Len(request_timestamps'[i]) :
                         request_timestamps'[i][k] > now - Window
             /\ \A i \in DOMAIN request_timestamps :
                   (\A k \in 1..Len(request_timestamps[i]) :
                       request_timestamps[i][k] <= now - Window)
                   => IF i = ip
                      THEN request_timestamps'[i] = <<now>>
                      ELSE i \notin DOMAIN request_timestamps']_vars

\* the first identity was admitted at time 0; a check of the other identity, made when
\* that timestamp had expired, has removed the first identity from the dict
C27_Witness ==
    /\ Len(reqlog) = 2
    /\ reqlog[1] = <<"10.0.0.1", 0, TRUE>>
    /\ reqlog[2][1] = "10.0.0.2"
    /\ reqlog[2][2] >= Window
    /\ reqlog[2][2] = now
    /\ DOMAIN request_timestamps = {"10.0.0.2"}

----------------------------------------------------------------------------
(* Further claims about MCPClient, checked under SpecClient *)

\* a process_request has returned, in the latest step, the transcript of its loop
ReturnedTranscript ==
    /\ result.run # 0
    /\ result.outcome = "returned"
    /\ result.last.op = "process_request"
    /\ result.last.turns >= 1
    /\ result.value = result.last.conversation_history

\* C28: the transcript that the loop of process_request returns begins with the user
\* message, and in it every tool-use entry is followed at once by one tool entry of the
\* same tool name, a result or an error, and by no second one; every tool entry has its
\* tool-use entry directly before it.
C28_TranscriptStructure ==
    ReturnedTranscript =>
        LET h == result.value
        IN  /\ Len(h) >= 1
            /\ h[1] = UserEntry
            /\ \A p \in 2..Len(h) : h[p].role # "user"
            /\ \A p \in 1..Len(h) :
                  /\ h[p].kind = "tool_use" =>
                        /\ h[p].role = "assistant"
                        /\ p < Len(h)
                        /\ h[p + 1].role = "tool"
                        /\ h[p + 1].name = h[p].name
                        /\ h[p + 1].kind \in {"result", "error"}
                        /\ p + 2 <= Len(h) => h[p + 2].role # "tool"
                  /\ h[p].role = "tool" =>
                        /\ p > 1
                        /\ h[p - 1].kind = "tool_use"
                        /\ h[p - 1].name = h[p].name

\* a returned transcript with a text, a tool that returned and a tool that failed
C28_Witness ==
    /\ ReturnedTranscript
    /\ \E p \in 1..Len(result.value) : result.value[p] = ToolResultEntry("fetch")
    /\ \E p \in 1..Len(result.value) : result.value[p].role = "tool" /\ result.value[p].kind = "error"
    /\ \E p \in 1..Len(result.value) : IsAssistantText(result.value[p])

\* the messages m2 are the messages m, then the blocks new
Appended(m, m2, new) == m2 = m \o new

\* a request processed without waiting has an error block: its tool is unknown, or the
\* server of its tool has no session and execute_tool raises at once
ErrorAtOnce(block, n) ==
    /\ block.role = "user" /\ block.kind = "toolResult"
    /\ block.name = n
    /\ block.text = "error"
    /\ \/ n \notin DOMAIN tool_server_map
       \/ NotInitialized(session[tool_server_map[n]])

\* C29: every tool request processed gets exactly one user-role toolResult block in
\* messages, after the model output that made the request and in the order of the
\* requests, with the id of the request (the tool name stands for the toolUseId); the
\* block has status error exactly when the tool is unknown or its execution failed; and
\* when the run is about to call the model again, messages holds one block for every
\* tool-use entry of the transcript.
C29_ToolResultsCorrelated ==
    [][\A r \in Runs :
          LET q == run[r]
              q2 == After(r)
              new == SubSeq(q2.messages, Len(q.messages) + 1, Len(q2.messages))
              done == IF q2.pc = "tool_wait" THEN q2.cidx - 1 ELSE Len(q2.content)
          IN  /\ \A ans \in ModelAnswers :
                    ModelCall(r, ans) =>
                       IF ans.kind = "response" /\ ans.has_message
                       THEN LET reqs == Requests(ans.content, done)
                            IN  /\ Len(q2.messages) = Len(q.messages) + 1 + Len(reqs)
                                /\ Appended(q.messages, q2.messages, new)
                                /\ new[1].role = "assistant" /\ new[1].kind = "output"
                                /\ \A k \in 1..Len(reqs) : ErrorAtOnce(new[k + 1], reqs[k])
                       ELSE q2.messages = q.messages
              /\ \A ok \in BOOLEAN :
                    ToolReturned(r, ok) =>
                       LET reqs == SelectSeq(SubSeq(q.content, q.cidx, done), IsRequest)
                       IN  /\ Len(reqs) >= 1
                           /\ reqs[1] = q.content[q.cidx]
                           /\ reqs[1] \in DOMAIN tool_server_map
                           /\ Len(q2.messages) = Len(q.messages) + Len(reqs)
                           /\ Appended(q.messages, q2.messages, new)
                           /\ new[1].role = "user" /\ new[1].kind = "toolResult"
                           /\ new[1].name = reqs[1]
                           /\ new[1].text = "error" <=> ~ok
                           /\ new[1].text \in {"", "error"}
                           /\ \A k \in 2..Len(reqs) : ErrorAtOnce(new[k], reqs[k])
              /\ (q.pc \in {"model", "tool_wait"} /\ run'[r] # q /\ q2.pc # "tool_wait") =>
                    /\ Len(ToolResults(q2.messages))
                          = Len(SelectSeq(q2.conversation_history, IsToolUse))
                    /\ \A k \in 1..Len(ToolResults(q2.messages)) :
                          ToolResults(q2.messages)[k].name
                             = SelectSeq(q2.conversation_history, IsToolUse)[k].name]_vars

\* the model is about to be called again with the success block of one request and the
\* error block of another, in the order of the requests
C29_Witness ==
    \E r \in Runs :
       /\ run[r].pc = "model"
       /\ run[r].turns = 1
       /\ \E a, b \in ToolNames :
             /\ a # b
             /\ run[r].content = <<a, b>>
             /\ run[r].messages = <<UserMessage, OutputMessage, ToolResultMessage(a, ""),
                                    ToolResultMessage(b, "error")>>

\* the sequence h2 begins with the sequence h, entry for entry
IsPrefix(h, h2) == Len(h) <= Len(h2) /\ SubSeq(h2, 1, Len(h)) = h

\* C30: during one run of process_request messages and conversation_history are
\* append-only: each step of the run leaves both with their earlier value as a prefix,
\* also when one model output has several text blocks; and a run starts from a fresh
\* state, the user message alone in both.
C30_AppendOnly ==
    [][\A r \in Runs :
          LET q == run[r]
              q2 == After(r)
          IN  /\ q.pc \in {"model", "tool_wait"} =>
                    /\ IsPrefix(q.messages, q2.messages)
                    /\ IsPrefix(q.conversation_history, q2.conversation_history)
              /\ q.pc \notin {"model", "tool_wait"} /\ run'[r].pc = "model" =>
                    /\ run'[r].messages = <<UserMessage>>
                    /\ run'[r].conversation_history = <<UserEntry>>]_vars

\* C31: the catalog that process_request collects for the model (all_tools, lines
\* 116-123) holds each tool name at most once, also when two servers expose the same
\* name.
C31_CatalogNamesUnique ==
    \A r \in Runs :
       run[r].op = "process_request" =>
          \A i, j \in 1..Len(run[r].all_tools) :
             i # j => run[r].all_tools[i] # run[r].all_tools[j]

----------------------------------------------------------------------------
(* Claims about concurrent runs on one MCPClient, checked under SpecClient2 *)

\* the awaits a run can be suspended at: Server.initialize (line 71), list_tools
\* (lines 72, 91), execute_tool (line 185), Server.cleanup (line 270)
AwaitPcs == {"reg_init", "reg_shake", "reg_list", "cat_list", "tool_wait", "cleanup"}

\* C32: the call of the reasoning model is a point where a run yields: while one run is
\* in its model call, another run of the same client that is suspended at an await can
\* take its next step.
C32_OthersRunDuringModelCall ==
    \A r, q \in Runs :
       r # q /\ run[r].pc = "model" /\ run[q].pc \in AwaitPcs => ENABLED ClientStep({q})

----------------------------------------------------------------------------
(* Claims about the termination of a run, checked under SpecClientLive *)

\* the model calls the bounds of the model allow have all been made
Exhausted == ~(model_calls < MaxTurns /\ WorkLeft)

\* how the run stands after the blocks of an output have been processed: it waits for
\* a tool, or it is at the next model call because a tool was used and the stop reason is
\* tool_use, or it has returned the transcript because that is not so
TurnRule(q2) ==
    \/ q2.pc = "tool_wait"
    \/ q2.pc = "model" /\ q2.tool_used /\ q2.stopReason = "tool_use"
    \/ /\ q2.pc = "returned"
       /\ ~(q2.tool_used /\ q2.stopReason = "tool_use")
       /\ result'.value = q2.conversation_history

\* C33: the loop of process_request has no turn limit. Whatever the number of turns
\* made, a turn that used a tool and has the stop reason tool_use is followed by another
\* model call, and the run returns only on a model answer that stops the loop (no tool
\* used, another stop reason, no output message, or the call raised). When every awaited
\* call and every model call returns, a run of process_request eventually returns, unless
\* the model goes on asking for tools for as many turns as are modelled.
C33_NoTurnLimit ==
    /\ [][\A r \in Drivers :
             LET q2 == After(r)
             IN  /\ \A ans \in ModelAnswers :
                       ModelCall(r, ans) =>
                          IF ans.kind = "raised" \/ ~ans.has_message
                          THEN q2.pc = "returned"
                          ELSE TurnRule(q2)
                 /\ \A ok \in BOOLEAN : ToolReturned(r, ok) => TurnRule(q2)]_vars
    /\ \A r \in Drivers :
          run[r].op = "process_request"
             ~> (run[r].pc = "idle" \/ (run[r].pc = "model" /\ Exhausted))

\* after two turns that each used a tool, the run is at its third model call
C33_Witness ==
    \E r \in Runs :
       /\ run[r].pc = "model"
       /\ run[r].turns = 2
       /\ Len(run[r].executed) >= 2

----------------------------------------------------------------------------
(* Further claims about CircuitBreaker, checked under SpecCB *)

\* C34: for a threshold of at least 1 and in every interleaving of calls, the breaker is
\* Closed exactly when failure_count is below the threshold; while it is Open or
\* HalfOpen, failure_count is at least the threshold.
C34_ClosedIffBelowThreshold ==
    /\ failure_threshold >= 1
    /\ cb_state = "closed" <=> failure_count < failure_threshold
    /\ cb_state \in {"open", "half-open"} => failure_count >= failure_threshold

\* a probe and a call that started before the breaker opened are both in flight, and
\* failures have gone past the threshold
C34_Witness ==
    /\ cb_state = "half-open"
    /\ Cardinality(InFlight) = 2
    /\ failure_count >= failure_threshold

\* C35: a call that succeeds while the breaker is Closed leaves state, failure_count and
\* open_until as they are; failure_count goes down only by the reset of a success in
\* HalfOpen, so every failure counts, with or without successes between the failures,
\* and the failure that brings the count to the threshold opens the breaker.
C35_SuccessWhileClosedKeepsCount ==
    [][/\ \A p \in Callers :
             /\ cb_state = "closed" /\ CallSucceed(p) =>
                   UNCHANGED <<cb_state, failure_count, open_until>>
             /\ CallSucceed(p) /\ failure_count' # failure_count =>
                   cb_state = "half-open" /\ failure_count' = 0 /\ cb_state' = "closed"
             /\ CallFail(p) =>
                   /\ failure_count' = failure_count + 1
                   /\ failure_count' >= failure_threshold => cb_state' = "open"
       /\ failure_count' < failure_count =>
             \E p \in Callers : cb_state = "half-open" /\ CallSucceed(p)]_vars

\* the count stands at 1 although the latest call of every caller succeeded: a success
\* came after the failure and did not reset it
C35_Witness ==
    /\ cb_state = "closed"
    /\ failure_count = 1
    /\ \A p \in Callers : call_pc[p] = "idle" /\ outcome[p] = "result"

\* C36: with calls in flight at the same time and a clock that does not go back,
\* open_until never moves backwards: every write stores a value at least as large as
\* the one it replaces.
C36_DeadlineNeverEarlier ==
    [][open_until' >= open_until]_vars

\* C37: while the breaker is HalfOpen at most one wrapped operation is in flight: a
\* call that arrives while the breaker is HalfOpen and a wrapped operation has not yet
\* completed does not invoke the operation.
C37_SingleProbe ==
    [][\A p \in Callers :
          cb_state = "half-open" /\ InFlight # {} /\ CallStart(p) =>
             /\ call_pc'[p] = "idle"
             /\ Cardinality({q \in Callers : call_pc'[q] = "awaiting"}) <= 1]_vars

----------------------------------------------------------------------------
(* Further claims about MCPClient, checked under SpecClient *)

\* C38: no acquired resource is lost: in every sequence of initialize_servers,
\* process_request and cleanup, a transport or a protocol session that was opened is
\* either still referenced by its Server, and so released by a later cleanup, or has
\* been released; initialize() never replaces a reference that is still held.
C38_NoResourceLost ==
    \A s \in Servers :
       /\ \A id \in 1..sse_made[s] : id = sse_context[s] \/ sse_exits[s][id] >= 1
       /\ \A id \in 1..sess_made[s] : id = session[s] \/ sess_exits[s][id] >= 1

\* C39: the catalog and the registry agree: every tool name that process_request puts
\* into the catalog for the model (all_tools) is a key of tool_server_map. Stated for a
\* call that has just registered the servers and for servers that answer list_tools()
\* alike each time they answer it: the names a server adds to the catalog are keys of
\* the map, also when its list_tools() failed during registration and succeeds now.
C39_CatalogWithinRegistry ==
    [][\A r \in Runs : \A ans \in ListAnswers :
          /\ run[r].op = "process_request"
          /\ run[r].visited # <<>>
          /\ ans.ok
          /\ \A e \in Range(run[r].listed) :
                e.server = ServerOrder[run[r].idx] => e.tools = ans.tools
          /\ CatListed(r, ans)
          => Range(ans.tools) \subseteq DOMAIN tool_server_map]_vars

\* the toolResult blocks that follow the last model output in the messages m
SinceOutput(m) ==
    LET outs == {p \in 1..Len(m) : m[p].kind = "output"}
    IN  IF outs = {} THEN <<>> ELSE SubSeq(m, Max(outs) + 1, Len(m))

\* the original reading of C40: a transcript that process_request returns never ends
\* with a tool-use entry or with a tool result or error entry
C40_NeverEndsWithToolEntry ==
    ReturnedTranscript =>
        LET last == result.value[Len(result.value)]
        IN  ~IsToolUse(last) /\ last.role # "tool"

\* C40: every tool result is put into messages, and a turn that used a tool and has the
\* stop reason tool_use is followed by a further model call, made with messages that
\* hold one toolResult block for each request of the turn, in order. A turn that used a
\* tool and has another stop reason is the final one: the run returns the transcript,
\* which then holds the tool entries of that turn, and the results are in messages but
\* are not sent to the model. A returned transcript never ends with a tool-use entry.
C40_ResultsShownWhenToolUse ==
    [][\A r \in Runs :
          LET q == run[r]
              q2 == After(r)
              turnEnds == /\ q2.pc # "tool_wait"
                          /\ \/ \E ok \in BOOLEAN : ToolReturned(r, ok)
                             \/ \E ans \in ModelAnswers :
                                   ans.kind = "response" /\ ans.has_message /\ ModelCall(r, ans)
              reqs == Requests(q2.content, Len(q2.content))
          IN  /\ turnEnds =>
                    /\ q2.tool_used <=> reqs # <<>>
                    /\ Len(SinceOutput(q2.messages)) = Len(reqs)
                    /\ \A k \in 1..Len(reqs) :
                          /\ SinceOutput(q2.messages)[k].kind = "toolResult"
                          /\ SinceOutput(q2.messages)[k].name = reqs[k]
                    /\ IF q2.tool_used /\ q2.stopReason = "tool_use"
                       THEN q2.pc = "model"
                       ELSE /\ q2.pc = "returned"
                            /\ result'.value = q2.conversation_history
                            /\ ~IsToolUse(result'.value[Len(result'.value)])
                            /\ q2.tool_used =>
                                  Len(ToolEntries(result'.value))
                                     = Len(ToolResults(q2.messages))
              /\ \A ans \in ModelAnswers :
                    ModelCall(r, ans) /\ q.turns >= 1 =>
                       /\ q.tool_used /\ q.stopReason = "tool_use"
                       /\ Len(ToolResults(q.messages)) = Len(ToolEntries(q.conversation_history))
                       /\ SinceOutput(q.messages) # <<>>
                       /\ IsPrefix(q.messages, q2.messages)]_vars

\* a turn with stop reason tool_use has executed a tool, and the run is at its next
\* model call with the result as the last block of messages
C40_Witness ==
    \E r \in Runs :
       /\ run[r].pc = "model"
       /\ run[r].turns = 1
       /\ run[r].stopReason = "tool_use"
       /\ run[r].executed # <<>>
       /\ run[r].messages[Len(run[r].messages)] = ToolResultMessage("fetch", "")
====
